---- MODULE Spec2Model ----
(***************************************************************************)
(* Model of the Mentora conversation orchestrator                          *)
(* (src/core/engine/mentor_engine.py), of its LLM client adapter           *)
(* (src/core/connection.py), of the HTTP routes that drive them            *)
(* (src/app/main.py) and of the SQLite store behind the routes             *)
(* (src/utils/handle_mentor_chat_history.py).                              *)
(*                                                                         *)
(* Python str values are TLA+ strings, character for character, so that    *)
(* json.loads, json.dumps, str.strip, str.find and the regular expression  *)
(* of _safe_json_parse are computed on the text itself.  Two notational    *)
(* conventions: the backquote character cannot stand in a TLA+ string      *)
(* literal and is written "~" (a code fence is "~~~"); the texts of the    *)
(* model use the JSON escapes \" \\ \/ \n \t \r \f only, integers as the   *)
(* only numbers, and no NaN/Infinity literals.                             *)
(*                                                                         *)
(* Python values are records [t |-> <type name>, v |-> <payload>]; a dict  *)
(* is the sequence of its <<key, value>> items in insertion order.         *)
(***************************************************************************)
EXTENDS Integers, Sequences, FiniteSets, TLC

VARIABLES
    conversation_summaries, \* MentorEngine.conversation_summaries: title -> summary
    pc,                     \* position of the engine coroutine being run
    req,                    \* arguments of the operation being run
    calls,                  \* provider calls issued by the operation being run
    answers,                \* what the provider did with each of them
    summary,                \* local `summary` of MentorEngine.chat
    ret,                    \* what the last finished operation returned or raised
    text,                   \* the text the pure functions are applied to
    out,                    \* results of the pure functions on `text`
    chats,                  \* rows of the table chats
    user_preferences,       \* rows of the table user_preferences
    handlers,               \* the route handlers in flight, each with its locals
    requests                \* the number of requests the routes have accepted

vars == <<conversation_summaries, pc, req, calls, answers, summary, ret, text, out,
          chats, user_preferences, handlers, requests>>

---------------------------------------------------------------------------
(* Python values *)

PyStr(s) == [t |-> "str", v |-> s]
PyInt(n) == [t |-> "int", v |-> n]
PyBool(b) == [t |-> "bool", v |-> b]
PyNone == [t |-> "NoneType", v |-> 0]
PyList(xs) == [t |-> "list", v |-> xs]
PyDict(items) == [t |-> "dict", v |-> items]

\* A raised exception, as the outcome of evaluating an expression.
Raise(e) == [t |-> "raise", v |-> e]
Raised(x) == x.t = "raise"

\* bool(x)
Truthy(x) ==
    CASE x.t = "str" -> x.v /= ""
      [] x.t = "int" -> x.v /= 0
      [] x.t = "bool" -> x.v
      [] x.t = "NoneType" -> FALSE
      [] x.t = "list" -> Len(x.v) > 0
      [] x.t = "dict" -> Len(x.v) > 0

\* a or b
PyOr(a, b) == IF Truthy(a) THEN a ELSE b

\* The element of a one-element set.  {e(x) : x \in {v}} binds x to the value
\* of v, computed once, wherever e uses it: Only of it is e(v).
Only(S) == CHOOSE y \in S : TRUE

Min(a, b) == IF a <= b THEN a ELSE b
Max(a, b) == IF a >= b THEN a ELSE b

\* s[i:i+1] with i counted from 1: the character at i, "" outside s.
At(s, i) == IF i >= 1 /\ i <= Len(s) THEN SubSeq(s, i, i) ELSE ""

\* s[i-1:j] with i, j counted from 1 and clipped to s.
Slice(s, i, j) == IF Max(i, 1) > Min(j, Len(s)) THEN "" ELSE SubSeq(s, Max(i, 1), Min(j, Len(s)))

\* s.startswith(p) and s.endswith(p)
StartsWith(s, p) == Len(p) <= Len(s) /\ SubSeq(s, 1, Len(p)) = p
EndsWith(s, p) == Len(p) <= Len(s) /\ SubSeq(s, Len(s) - Len(p) + 1, Len(s)) = p

\* The first position from i on whose character is in C (FirstIn) or is not
\* in C (FirstNotIn); Len(s) + 1 when there is none.
FirstIn(s, i, C) ==
    IF \E j \in i..Len(s) : At(s, j) \in C
    THEN CHOOSE j \in i..Len(s) : At(s, j) \in C /\ \A k \in i..(j - 1) : At(s, k) \notin C
    ELSE Len(s) + 1

FirstNotIn(s, i, C) ==
    IF \E j \in i..Len(s) : At(s, j) \notin C
    THEN CHOOSE j \in i..Len(s) : At(s, j) \notin C /\ \A k \in i..(j - 1) : At(s, k) \in C
    ELSE Len(s) + 1

\* The last position whose character is in C (LastIn) or not in C
\* (LastNotIn); 0 when there is none.
LastIn(s, C) ==
    IF \E j \in 1..Len(s) : At(s, j) \in C
    THEN CHOOSE j \in 1..Len(s) : At(s, j) \in C /\ \A k \in (j + 1)..Len(s) : At(s, k) \notin C
    ELSE 0

LastNotIn(s, C) ==
    IF \E j \in 1..Len(s) : At(s, j) \notin C
    THEN CHOOSE j \in 1..Len(s) : At(s, j) \notin C /\ \A k \in (j + 1)..Len(s) : At(s, k) \in C
    ELSE 0

\* Characters str.strip() removes.
StripChars == {" ", "\t", "\n", "\r", "\f"}

\* s.strip()
Strip(s) == Slice(s, FirstNotIn(s, 1, StripChars), LastNotIn(s, StripChars))

\* s.find(c) and s.rfind(c) for one character c, counted from 1; 0 when absent.
Find(s, c) == IF FirstIn(s, 1, {c}) > Len(s) THEN 0 ELSE FirstIn(s, 1, {c})
RFind(s, c) == LastIn(s, {c})

\* p in s, for strings.
Contains(s, p) == \E i \in 1..(Len(s) - Len(p) + 1) : Slice(s, i, i + Len(p) - 1) = p

---------------------------------------------------------------------------
(* json.loads *)

JsonWs == {" ", "\t", "\n", "\r"}
ControlChars == {"\t", "\n", "\r", "\f"}
Digits == {"0", "1", "2", "3", "4", "5", "6", "7", "8", "9"}

\* A failed scan: json.JSONDecodeError.
DecodeError == [ok |-> FALSE, val |-> PyNone, end |-> 0]
Scanned(x, e) == [ok |-> TRUE, val |-> x, end |-> e]

\* json.decoder.WHITESPACE.match(s, i).end()
SkipWs(s, i) == FirstNotIn(s, i, JsonWs)

\* json.decoder.BACKSLASH
Unescape(e) ==
    CASE e = "\"" -> "\""
      [] e = "\\" -> "\\"
      [] e = "/" -> "/"
      [] e = "n" -> "\n"
      [] e = "t" -> "\t"
      [] e = "r" -> "\r"
      [] e = "f" -> "\f"
      [] OTHER -> ""

\* json.decoder.scanstring (strict): s[i..] follows an opening quote.
RECURSIVE scanstring(_, _, _)
scanstring(s, i, acc) ==
    Only({IF At(s, j) = "\"" THEN Scanned(acc \o Slice(s, i, j - 1), j + 1)
          ELSE IF At(s, j) = "\\" /\ Unescape(At(s, j + 1)) /= ""
          THEN scanstring(s, j + 2, acc \o Slice(s, i, j - 1) \o Unescape(At(s, j + 1)))
          ELSE DecodeError
          : j \in {FirstIn(s, i, {"\"", "\\"} \cup ControlChars)}})

DigitValue(c) == CHOOSE n \in 0..9 : At("0123456789", n + 1) = c

DigitsEnd(s, i) == FirstNotIn(s, i, Digits)

RECURSIVE IntValue(_, _, _, _)
IntValue(s, i, j, acc) ==
    IF i >= j THEN acc ELSE IntValue(s, i + 1, j, 10 * acc + DigitValue(At(s, i)))

\* json.scanner NUMBER_RE, integer part: -?(0|[1-9][0-9]*)
ScanNumber(s, i) ==
    Only({IF e = b THEN DecodeError
          ELSE Scanned(PyInt(IF b > i THEN 0 - IntValue(s, b, e, 0) ELSE IntValue(s, b, e, 0)), e)
          : b \in {IF At(s, i) = "-" THEN i + 1 ELSE i},
            e \in {IF At(s, IF At(s, i) = "-" THEN i + 1 ELSE i) = "0"
                   THEN (IF At(s, i) = "-" THEN i + 1 ELSE i) + 1
                   ELSE DigitsEnd(s, IF At(s, i) = "-" THEN i + 1 ELSE i)}})

\* d[k] = x on the items of a dict.
RECURSIVE DictSet(_, _, _)
DictSet(items, k, x) ==
    IF items = <<>> THEN <<<<k, x>>>>
    ELSE IF Head(items)[1] = k THEN <<<<k, x>>>> \o Tail(items)
    ELSE <<Head(items)>> \o DictSet(Tail(items), k, x)

RECURSIVE scan_once(_, _)
RECURSIVE ObjectItems(_, _, _)
RECURSIVE ArrayItems(_, _, _)

\* json.decoder.JSONObject: s[i..] follows "{".
JSONObject(s, i) ==
    Only({IF At(s, j) = "}" THEN Scanned(PyDict(<<>>), j + 1)
          ELSE IF At(s, j) /= "\"" THEN DecodeError
          ELSE ObjectItems(s, j + 1, <<>>)
          : j \in {IF At(s, i) = "\"" THEN i ELSE SkipWs(s, i)}})

\* JSONObject after an item k: x that ends at e: "}" closes the object, ","
\* must be followed by the next key.
ObjectNext(s, e, more) ==
    IF At(s, e) = "}" THEN Scanned(PyDict(more), e + 1)
    ELSE IF At(s, e) /= "," THEN DecodeError
    ELSE Only({IF At(s, n) /= "\"" THEN DecodeError ELSE ObjectItems(s, n + 1, more)
               : n \in {SkipWs(s, e + 1)}})

\* JSONObject after the key k: the ":" and the value.
ObjectValue(s, k, items) ==
    Only({IF At(s, c) /= ":" THEN DecodeError
          ELSE Only({IF ~x.ok THEN DecodeError
                     ELSE Only({ObjectNext(s, e, more)
                                : e \in {SkipWs(s, x.end)},
                                  more \in {DictSet(items, k.val, x.val)}})
                     : x \in {scan_once(s, SkipWs(s, c + 1))}})
          : c \in {SkipWs(s, k.end)}})

\* The item loop of JSONObject: s[i..] follows the opening quote of a key.
ObjectItems(s, i, items) ==
    Only({IF ~k.ok THEN DecodeError ELSE ObjectValue(s, k, items)
          : k \in {scanstring(s, i, "")}})

\* json.decoder.JSONArray: s[i..] follows "[".
JSONArray(s, i) ==
    Only({IF At(s, j) = "]" THEN Scanned(PyList(<<>>), j + 1) ELSE ArrayItems(s, j, <<>>)
          : j \in {SkipWs(s, i)}})

\* JSONArray after the values more, at e: "]" closes the array, "," is
\* followed by the next value.
ArrayNext(s, e, more) ==
    IF At(s, e) = "]" THEN Scanned(PyList(more), e + 1)
    ELSE IF At(s, e) /= "," THEN DecodeError
    ELSE Only({ArrayItems(s, n, more) : n \in {SkipWs(s, e + 1)}})

\* The value loop of JSONArray.
ArrayItems(s, i, xs) ==
    Only({IF ~x.ok THEN DecodeError
          ELSE Only({ArrayNext(s, e, more)
                     : e \in {SkipWs(s, x.end)}, more \in {Append(xs, x.val)}})
          : x \in {scan_once(s, i)}})

\* A JSON string value at s[i..], after its opening quote.
ScanStringValue(s, i) ==
    Only({IF r.ok THEN Scanned(PyStr(r.val), r.end) ELSE DecodeError
          : r \in {scanstring(s, i, "")}})

\* json.scanner.py_make_scanner._scan_once
scan_once(s, i) ==
    Only({CASE c = "\"" -> ScanStringValue(s, i + 1)
            [] c = "{" -> JSONObject(s, i + 1)
            [] c = "[" -> JSONArray(s, i + 1)
            [] c = "n" /\ Slice(s, i, i + 3) = "null" -> Scanned(PyNone, i + 4)
            [] c = "t" /\ Slice(s, i, i + 3) = "true" -> Scanned(PyBool(TRUE), i + 4)
            [] c = "f" /\ Slice(s, i, i + 4) = "false" -> Scanned(PyBool(FALSE), i + 5)
            [] c \in Digits \cup {"-"} -> ScanNumber(s, i)
            [] OTHER -> DecodeError
          : c \in {At(s, i)}})

\* json.loads(s): the value, or Raise("JSONDecodeError").
json_loads(s) ==
    Only({IF r.ok /\ SkipWs(s, r.end) = Len(s) + 1 THEN r.val ELSE Raise("JSONDecodeError")
          : r \in {scan_once(s, SkipWs(s, 1))}})

---------------------------------------------------------------------------
(* json.dumps, str() and repr() *)

RECURSIVE NatStr(_)
NatStr(n) == IF n < 10 THEN At("0123456789", n + 1) ELSE NatStr(n \div 10) \o At("0123456789", (n % 10) + 1)

IntStr(n) == IF n < 0 THEN "-" \o NatStr(0 - n) ELSE NatStr(n)

\* json.encoder.ESCAPE_DCT
EscapeChar(c) ==
    CASE c = "\"" -> "\\\""
      [] c = "\\" -> "\\\\"
      [] c = "\n" -> "\\n"
      [] c = "\t" -> "\\t"
      [] c = "\r" -> "\\r"
      [] c = "\f" -> "\\f"
      [] OTHER -> c

RECURSIVE EscapeFrom(_, _)
EscapeFrom(s, i) ==
    Only({IF j > Len(s) THEN Slice(s, i, Len(s))
          ELSE Slice(s, i, j - 1) \o EscapeChar(At(s, j)) \o EscapeFrom(s, j + 1)
          : j \in {FirstIn(s, i, {"\"", "\\", "\n", "\t", "\r", "\f"})}})

\* json.encoder.py_encode_basestring_ascii
encode_basestring(s) == "\"" \o EscapeFrom(s, 1) \o "\""

RECURSIVE json_dumps(_)
RECURSIVE DumpsList(_, _)
RECURSIVE DumpsItems(_, _)

DumpsList(xs, i) ==
    IF i > Len(xs) THEN ""
    ELSE (IF i > 1 THEN ", " ELSE "") \o json_dumps(xs[i]) \o DumpsList(xs, i + 1)

DumpsItems(items, i) ==
    IF i > Len(items) THEN ""
    ELSE (IF i > 1 THEN ", " ELSE "") \o encode_basestring(items[i][1]) \o ": "
             \o json_dumps(items[i][2]) \o DumpsItems(items, i + 1)

\* json.dumps(x) with the default separators
json_dumps(x) ==
    CASE x.t = "str" -> encode_basestring(x.v)
      [] x.t = "int" -> IntStr(x.v)
      [] x.t = "bool" -> IF x.v THEN "true" ELSE "false"
      [] x.t = "NoneType" -> "null"
      [] x.t = "list" -> "[" \o DumpsList(x.v, 1) \o "]"
      [] x.t = "dict" -> "{" \o DumpsItems(x.v, 1) \o "}"

\* The escapes of repr() of a str.
ReprChar(c, q) ==
    CASE c = "\\" -> "\\\\"
      [] c = "\n" -> "\\n"
      [] c = "\t" -> "\\t"
      [] c = "\r" -> "\\r"
      [] c = "\f" -> "\\x0c"
      [] c = q -> "\\" \o q
      [] OTHER -> c

RECURSIVE ReprFrom(_, _, _)
ReprFrom(s, i, q) ==
    Only({IF j > Len(s) THEN Slice(s, i, Len(s))
          ELSE Slice(s, i, j - 1) \o ReprChar(At(s, j), q) \o ReprFrom(s, j + 1, q)
          : j \in {FirstIn(s, i, {q, "\\", "\n", "\t", "\r", "\f"})}})

\* repr(s) of a str: single quotes unless s holds one and no double quote.
ReprStr(s) ==
    Only({q \o ReprFrom(s, 1, q) \o q
          : q \in {IF Find(s, "'") > 0 /\ Find(s, "\"") = 0 THEN "\"" ELSE "'"}})

RECURSIVE PyRepr(_)
RECURSIVE ReprList(_, _)
RECURSIVE ReprItems(_, _)

ReprList(xs, i) ==
    IF i > Len(xs) THEN ""
    ELSE (IF i > 1 THEN ", " ELSE "") \o PyRepr(xs[i]) \o ReprList(xs, i + 1)

ReprItems(items, i) ==
    IF i > Len(items) THEN ""
    ELSE (IF i > 1 THEN ", " ELSE "") \o ReprStr(items[i][1]) \o ": "
             \o PyRepr(items[i][2]) \o ReprItems(items, i + 1)

\* repr(x)
PyRepr(x) ==
    CASE x.t = "str" -> ReprStr(x.v)
      [] x.t = "int" -> IntStr(x.v)
      [] x.t = "bool" -> IF x.v THEN "True" ELSE "False"
      [] x.t = "NoneType" -> "None"
      [] x.t = "list" -> "[" \o ReprList(x.v, 1) \o "]"
      [] x.t = "dict" -> "{" \o ReprItems(x.v, 1) \o "}"

\* str(x)
str(x) == IF x.t = "str" THEN x.v ELSE PyRepr(x)

---------------------------------------------------------------------------
(* Python operations on values that the engine applies to parsed output *)

\* k in x, for a str k: True/False as a bool value, or TypeError.
PyIn(k, x) ==
    CASE x.t = "dict" -> PyBool(\E i \in 1..Len(x.v) : x.v[i][1] = k)
      [] x.t = "list" -> PyBool(\E i \in 1..Len(x.v) : x.v[i].t = "str" /\ x.v[i].v = k)
      [] x.t = "str" -> PyBool(Contains(x.v, k))
      [] OTHER -> Raise("TypeError")

\* x.get(k, default): only a dict has the method.
DictGet(x, k, default) ==
    IF x.t /= "dict" THEN Raise("AttributeError")
    ELSE IF \E i \in 1..Len(x.v) : x.v[i][1] = k
         THEN x.v[CHOOSE i \in 1..Len(x.v) : x.v[i][1] = k][2]
         ELSE default

\* x[k] for a str k.
GetItem(x, k) ==
    IF x.t /= "dict" THEN Raise("TypeError")
    ELSE IF \E i \in 1..Len(x.v) : x.v[i][1] = k
         THEN x.v[CHOOSE i \in 1..Len(x.v) : x.v[i][1] = k][2]
         ELSE Raise("KeyError")

\* The values `for s in x` yields, as a list, or TypeError.
Iterate(x) ==
    CASE x.t = "list" -> x
      [] x.t = "str" -> PyList([i \in 1..Len(x.v) |-> PyStr(At(x.v, i))])
      [] x.t = "dict" -> PyList([i \in 1..Len(x.v) |-> PyStr(x.v[i][1])])
      [] OTHER -> Raise("TypeError")

\* x[:n] as the logging calls evaluate it: a str or a list can be sliced.
Sliceable(x) == x.t \in {"str", "list"}

\* xs[:] in the place of xs[:n]: nothing is cut.
TakeAll(xs, n) == xs

\* xs[:n] on a sequence
Take(xs, n) == SubSeq(xs, 1, Min(n, Len(xs)))

\* (s or "") without the strip.
Untrimmed(s) == IF Raised(s) THEN s ELSE IF ~Truthy(s) THEN PyStr("") ELSE s

\* MentorEngine._sanitize_text: (s or "").strip()
_sanitize_text(s) ==
    IF Raised(s) THEN s
    ELSE IF ~Truthy(s) THEN PyStr("")
    ELSE IF s.t = "str" THEN PyStr(Strip(s.v))
    ELSE Raise("AttributeError")

\* [self._sanitize_text(str(s)) for s in raw if str(s).strip()], as a
\* sequence of strings wrapped in a list value, or the exception of the loop.
RECURSIVE CleanFrom(_, _)
CleanFrom(xs, i) ==
    IF i > Len(xs) THEN <<>>
    ELSE Only({IF e /= "" THEN <<e>> \o CleanFrom(xs, i + 1) ELSE CleanFrom(xs, i + 1)
               : e \in {Strip(str(xs[i]))}})

CleanList(raw) ==
    Only({IF Raised(r) THEN r
          ELSE IF Raised(Iterate(r)) THEN Iterate(r)
          ELSE PyList(CleanFrom(Iterate(r).v, 1))
          : r \in {raw}})

\* a or b or c over parsed.get(k, default) for the keys in order.
RECURSIVE GetOr(_, _, _, _)
GetOr(parsed, keys, default, i) ==
    Only({IF Raised(r) \/ i = Len(keys) THEN r
          ELSE IF Truthy(r) THEN r
          ELSE GetOr(parsed, keys, default, i + 1)
          : r \in {DictGet(parsed, keys[i], default)}})

\* a or b or c over self._sanitize_text(parsed.get(k, "")) for the keys in order.
RECURSIVE SanitizedOr(_, _, _)
SanitizedOr(parsed, keys, i) ==
    Only({IF Raised(r) \/ i = Len(keys) THEN r
          ELSE IF Truthy(r) THEN r
          ELSE SanitizedOr(parsed, keys, i + 1)
          : r \in {_sanitize_text(DictGet(parsed, keys[i], PyStr("")))}})

---------------------------------------------------------------------------
(* MentorEngine._safe_json_parse *)

\* re.search(r'\{.*?\}', ...): the non-greedy pattern stops at the first "}".
RegexBracesLazy(s) ==
    IF Find(s, "{") > 0 /\ FirstIn(s, Find(s, "{"), {"}"}) <= Len(s)
    THEN <<TRUE, Slice(s, Find(s, "{"), FirstIn(s, Find(s, "{"), {"}"}))>>
    ELSE <<FALSE, "">>

\* re.search(r'\{.*\}', s, re.DOTALL): the match, leftmost "{" to last "}",
\* as <<found, group(0)>>.
RegexBraces(s) ==
    IF Find(s, "{") > 0 /\ RFind(s, "}") > Find(s, "{")
    THEN <<TRUE, Slice(s, Find(s, "{"), RFind(s, "}"))>>
    ELSE <<FALSE, "">>

\* The sentinel with the text trimmed.
ParseFailureStripped(response_text) ==
    PyDict(<< <<"error", PyStr("Failed to parse response")>>,
              <<"raw_response", PyStr(Strip(response_text))>> >>)

\* The sentinel of the final fallback.
ParseFailure(response_text) ==
    PyDict(<< <<"error", PyStr("Failed to parse response")>>,
              <<"raw_response", PyStr(response_text)>> >>)

\* First attempt: json.loads(response_text), returned as it is.
FirstAttempt(response_text) == json_loads(response_text)

\* Second attempt, entered after the first raised JSONDecodeError: parse the
\* text again and look for nested JSON in "response".
SecondAttempt(response_text) ==
    Only({IF Raised(data) THEN data
          ELSE IF data.t = "dict" /\ PyIn("response", data).v
          THEN IF GetItem(data, "response").t /= "str" THEN data
               ELSE Only({IF Raised(inner) THEN data ELSE inner
                          : inner \in {json_loads(GetItem(data, "response").v)}})
          ELSE data
          : data \in {json_loads(response_text)}})

\* Third attempt: the text between the first "{" and the last "}".
ThirdAttempt(response_text) ==
    Only({IF json_match[1] THEN json_loads(json_match[2]) ELSE Raise("JSONDecodeError")
          : json_match \in {RegexBraces(response_text)}})

\* The attempts in order, the first that does not raise wins.
ParseAttempts(response_text) ==
    Only({IF ~Raised(first) THEN first
          ELSE Only({IF ~Raised(second) THEN second
                     ELSE Only({IF ~Raised(third) THEN third ELSE ParseFailure(response_text)
                                : third \in {ThirdAttempt(response_text)}})
                     : second \in {SecondAttempt(response_text)}})
          : first \in {FirstAttempt(response_text)}})

_safe_json_parse(response_text) ==
    IF Strip(response_text) = "" THEN PyDict(<<>>) ELSE ParseAttempts(response_text)

---------------------------------------------------------------------------
(* Connection (src/core/connection.py) *)

\* _clean_json_response's fences: a leading "~~~json" and then a leading "~~~"
\* are dropped, then a trailing "~~~".
StripFences(t) ==
    Only({Only({IF EndsWith(t2, "~~~") THEN Slice(t2, 1, Len(t2) - 3) ELSE t2
                : t2 \in {IF StartsWith(t1, "~~~") THEN Slice(t1, 4, Len(t1)) ELSE t1}})
          : t1 \in {IF StartsWith(t, "~~~json") THEN Slice(t, 8, Len(t)) ELSE t}})

\* _clean_json_response once the fences are off and the text is stripped.
ExtractObject(t) ==
    IF StartsWith(t, "{") THEN t
    ELSE Only({IF start_idx /= 0 /\ end_idx /= 0 /\ end_idx > start_idx
               THEN Slice(t, start_idx, end_idx)
               ELSE json_dumps(PyDict(<< <<"response", PyStr(t)>> >>))
               : start_idx \in {Find(t, "{")}, end_idx \in {RFind(t, "}")}})

\* Connection._clean_json_response
_clean_json_response(raw) ==
    Only({IF t0 = "" THEN "{\"response\": \"No response generated\"}"
          ELSE Only({ExtractObject(t) : t \in {Strip(StripFences(t0))}})
          : t0 \in {Strip(raw)}})

\* str.lower(), for the ASCII letters.
RECURSIVE LowerFrom(_, _)
LowerFrom(s, i) ==
    IF i > Len(s) THEN ""
    ELSE LET upper == "ABCDEFGHIJKLMNOPQRSTUVWXYZ"
             lower == "abcdefghijklmnopqrstuvwxyz"
             c == SubSeq(s, i, i)
             k == Find(upper, c)
         IN  (IF k /= 0 THEN SubSeq(lower, k, k) ELSE c) \o LowerFrom(s, i + 1)

Lower(s) == LowerFrom(s, 1)

\* The loop of _prepare_chat_history from message i on, with the history and
\* the system instruction collected so far.
RECURSIVE PrepareFrom(_, _, _, _)
PrepareFrom(messages, i, history, system) ==
    IF i > Len(messages) THEN [history |-> history, system |-> system]
    ELSE LET role == Lower(messages[i].role)
             content == messages[i].content
         IN  IF role = "system" THEN PrepareFrom(messages, i + 1, history, PyStr(content))
             ELSE IF role = "user"
             THEN PrepareFrom(messages, i + 1,
                              Append(history, [role |-> "user", parts |-> <<content>>]), system)
             ELSE IF role = "assistant"
             THEN PrepareFrom(messages, i + 1,
                              Append(history, [role |-> "model", parts |-> <<content>>]), system)
             ELSE PrepareFrom(messages, i + 1, history, system)

\* Connection._prepare_chat_history: (history, system)
_prepare_chat_history(messages) == PrepareFrom(messages, 1, <<>>, PyNone)

\* The system_instruction the provider's model is built with for a request,
\* None when the adapter uses its client without one.
SystemInstruction(messages) ==
    Only({IF Truthy(p.system) THEN p.system ELSE PyNone
          : p \in {_prepare_chat_history(messages)}})

FormatApology == "I apologize, but I'm having trouble formatting my response properly. Could you please try again?"
TroubleText == "Sorry, I had trouble generating a response."

\* What the provider does with one request: it answers with a text
\* (result.text), or the call or the read of result.text raises (transport
\* or SDK error, blocked or truncated candidate).
Answer(s) == [raises |-> FALSE, text |-> s]
Failure == [raises |-> TRUE, text |-> ""]

\* A json_mode answer handed on without validation.
Unvalidated(cleaned) == cleaned

\* The JSON validation of a json_mode answer.
ValidatedJson(cleaned) ==
    Only({IF Raised(json_loads(t))
          THEN json_dumps(PyDict(<< <<"response", PyStr(FormatApology)>> >>))
          ELSE t
          : t \in {cleaned}})

\* The adapter with the plain fallback text in either mode.
PlainFallback(result, json_mode) ==
    IF result.raises THEN TroubleText
    ELSE IF json_mode /\ result.text /= ""
         THEN ValidatedJson(_clean_json_response(result.text))
         ELSE result.text

\* Connection.generate_chat_completion, from the provider's result on: the
\* text it returns.
generate_chat_completion(result, json_mode) ==
    IF result.raises
    THEN IF json_mode
         THEN json_dumps(PyDict(<< <<"response", PyStr(TroubleText)>> >>))
         ELSE TroubleText
    ELSE IF json_mode /\ result.text /= ""
         THEN ValidatedJson(_clean_json_response(result.text))
         ELSE result.text

---------------------------------------------------------------------------
(* MentorEngine: what each operation makes of the text of the completion *)

\* len(chat_history) < 10, chat_history[-6:], suggestions[:4] and prompts[:4]
SummaryThreshold == 10
HistoryWindow == 6
MaxSuggestions == 4

Returned(x) == [raised |-> FALSE, exc |-> "", value |-> x]
Propagated(e) == [raised |-> TRUE, exc |-> e.v, value |-> <<>>]

EmptyHistoryReply == "Please start the conversation with a message."
ChatApology == "I'm having trouble formatting my response. Could you please rephrase your question?"
ChatFallbackSuggestions ==
    <<"Can you explain more?", "What should I know next?", "Give me an example", "What's the next step?">>

\* The reply keys with "reply" ahead of "response".
ReplyKeysReordered == <<"reply", "response", "content">>

ReplyKeys == <<"response", "reply", "content">>
SuggestionKeys == <<"suggestions", "follow_up", "prompts">>

\* The apology for every reply that is missing.
ApologyOnly(parsed) == PyStr(ChatApology)

\* chat, "if not reply": the raw text of a failed parse, else the apology.
ReplyFallback(parsed) ==
    IF PyIn("error", parsed).v /\ PyIn("raw_response", parsed).v
    THEN GetItem(parsed, "raw_response")
    ELSE PyStr(ChatApology)

\* MentorEngine.chat after `parsed = self._safe_json_parse(llm_response)`:
\* (reply, suggestions), or the exception that leaves chat.
ChatFromParsed(parsed) ==
    LET has_error == PyIn("error", parsed)
    IN  IF Raised(has_error) THEN Propagated(has_error)
        ELSE LET reply0 == IF has_error.v THEN PyStr("") ELSE SanitizedOr(parsed, ReplyKeys, 1) IN
        IF Raised(reply0) THEN Propagated(reply0)
        ELSE LET suggestions0 ==
                     IF has_error.v THEN PyList(<<>>)
                     ELSE CleanList(GetOr(parsed, SuggestionKeys, PyList(<<>>), 1))
             IN
        IF Raised(suggestions0) THEN Propagated(suggestions0)
        ELSE LET reply == IF Truthy(reply0) THEN reply0 ELSE ReplyFallback(parsed)
                 suggestions == IF Len(Take(suggestions0.v, MaxSuggestions)) > 0
                                THEN Take(suggestions0.v, MaxSuggestions)
                                ELSE ChatFallbackSuggestions
             IN
        IF Raised(reply) THEN Propagated(reply)
        ELSE IF ~Sliceable(reply) THEN Propagated(Raise("TypeError"))
        ELSE Returned([reply |-> reply, suggestions |-> Take(suggestions, MaxSuggestions)])

\* MentorEngine.chat from `parsed = self._safe_json_parse(llm_response)` on.
ChatExtract(llm_response) ==
    Only({ChatFromParsed(parsed) : parsed \in {_safe_json_parse(llm_response)}})

DefaultGreeting == "Hello! I'm your AI mentor, ready to guide you through your learning journey."
\* No topics in the place of the default ones.
NoTopics == <<>>

DefaultTopics == <<"Introduction", "Core Concepts", "Practical Applications", "Advanced Topics">>
DefaultQuestion == "What would you like to explore first?"
DefaultSuggestions ==
    <<"What should I focus on?", "Can you explain the basics?", "Show me examples", "How does this work?">>

\* "\n- ".join(topics)
RECURSIVE JoinFrom(_, _, _)
JoinFrom(xs, sep, i) ==
    IF i > Len(xs) THEN ""
    ELSE (IF i > 1 THEN sep ELSE "") \o xs[i] \o JoinFrom(xs, sep, i + 1)

Join(xs, sep) == JoinFrom(xs, sep, 1)

\* MentorEngine._fallback_intro
_fallback_intro ==
    [intro |-> "Hello! I'm your AI mentor, ready to guide you through your learning journey.\n\nLet's start exploring together!",
     topics |-> <<"Introduction", "Core Concepts", "Practical Applications", "Advanced Topics">>,
     suggestions |-> <<"What should I focus on first?", "Can you explain the basics?", "Show me an example", "How does this apply to real world?">>]

\* The intro text assembled from greeting, topics and question.
IntroText(greeting, topics, question) ==
    IF Len(topics) > 0
    THEN greeting \o "\n\nHere are the topics we'll explore:\n- " \o Join(topics, "\n- ")
             \o "\n\n" \o question
    ELSE greeting \o "\n\n" \o question

\* MentorEngine.generate_intro_and_topics after `parsed = ...`.
IntroFromParsed(parsed) ==
    LET has_error == PyIn("error", parsed)
    IN  IF Raised(has_error) THEN Propagated(has_error)
        ELSE IF has_error.v THEN Returned(_fallback_intro)
        ELSE LET greeting0 == _sanitize_text(DictGet(parsed, "greeting", PyStr(""))) IN
        IF Raised(greeting0) THEN Propagated(greeting0)
        ELSE LET topics0 == CleanList(DictGet(parsed, "topics", PyList(<<>>))) IN
        IF Raised(topics0) THEN Propagated(topics0)
        ELSE LET question0 == _sanitize_text(DictGet(parsed, "concluding_question", PyStr(""))) IN
        IF Raised(question0) THEN Propagated(question0)
        ELSE LET suggestions0 == CleanList(DictGet(parsed, "suggestions", PyList(<<>>))) IN
        IF Raised(suggestions0) THEN Propagated(suggestions0)
        ELSE LET greeting == IF greeting0.v /= "" THEN greeting0.v ELSE DefaultGreeting
                 topics == IF Len(topics0.v) > 0 THEN topics0.v ELSE DefaultTopics
                 question == IF question0.v /= "" THEN question0.v ELSE DefaultQuestion
                 suggestions == IF Len(suggestions0.v) > 0 THEN suggestions0.v ELSE DefaultSuggestions
             IN  Returned([intro |-> IntroText(greeting, topics, question),
                           topics |-> topics, suggestions |-> suggestions])

\* MentorEngine.generate_intro_and_topics from `parsed = ...` on.
IntroExtract(llm_response) ==
    Only({IntroFromParsed(parsed) : parsed \in {_safe_json_parse(llm_response)}})

\* The fallback prompts of generate_topic_prompts.
TopicFallbackPrompts(topic) ==
    <<"What are the basics of " \o topic \o "?",
      "Give me an example of " \o topic,
      "How to apply " \o topic \o " in practice?",
      "What are common mistakes with " \o topic \o "?">>

\* MentorEngine.generate_topic_prompts after `parsed = ...`.
TopicFromParsed(parsed, topic) ==
    LET has_error == PyIn("error", parsed)
    IN  IF Raised(has_error) THEN Propagated(has_error)
        ELSE LET prompts0 ==
                     IF has_error.v THEN PyList(<<>>)
                     ELSE IF parsed.t = "list" THEN CleanList(parsed)
                     ELSE CleanList(GetOr(parsed, <<"prompts", "questions", "suggestions">>, PyList(<<>>), 1))
             IN
        IF Raised(prompts0) THEN Propagated(prompts0)
        ELSE LET prompts == IF Len(prompts0.v) > 0 THEN prompts0.v ELSE TopicFallbackPrompts(topic)
             IN  Returned(Take(prompts, MaxSuggestions))

\* MentorEngine.generate_topic_prompts from `parsed = ...` on.
TopicExtract(resp, topic) ==
    Only({TopicFromParsed(parsed, topic) : parsed \in {_safe_json_parse(resp)}})

---------------------------------------------------------------------------
(* MentorEngine.prompts: the templates _load_yaml falls back to *)

DefaultInstructions == "You are a helpful AI mentor."
DefaultRole == "You are a general mentor."
JsonOutputFormat == "{\"response\":\"<markdown>\",\"suggestions\":[\"q1\",\"q2\",\"q3\"]}"
SummarizePrompt == "Summarize key points."
IntroPrompt == "Return JSON with greeting, topics[], concluding_question, suggestions[]."
NoPriorSummary == "(no prior summary)"

\* tasks.generate_topic_prompts formatted with the topic.
TopicPrompt(topic) == "Return a JSON array with 4 short questions for " \o topic \o "."

\* tasks.chat.user_prompt_wrapper formatted with `summary or "(no prior summary)"`.
UserPrompt(s) ==
    "Summary: " \o (IF s /= "" THEN s ELSE NoPriorSummary)
        \o "\nContinue the conversation based on recent messages."

\* context_lines of chat: a line is added only for a value that is truthy.
ContextLines(c) ==
    <<"Role: " \o c.role>>
    \o (IF c.learning_goal /= "" THEN <<"Learning Goal: " \o c.learning_goal>> ELSE <<>>)
    \o (IF Len(c.skills) > 0 THEN <<"Skills: " \o Join(c.skills, ", ")>> ELSE <<>>)
    \o <<"Difficulty: " \o c.difficulty>>
    \o (IF Len(c.mentor_topics) > 0 THEN <<"Topics: " \o Join(c.mentor_topics, ", ")>> ELSE <<>>)
    \o (IF c.current_topic /= "" THEN <<"Current Topic: " \o c.current_topic>> ELSE <<>>)
    \o (IF Len(c.completed_topics) > 0 THEN <<"Completed Topics: " \o Join(c.completed_topics, ", ")>> ELSE <<>>)

\* tasks.chat.system_prompt formatted; every role maps to roles["default"].
SystemPrompt(c) ==
    Join(ContextLines(c), "\n") \o "\n" \o DefaultRole \o "\n" \o DefaultInstructions
        \o "\n" \o JsonOutputFormat

---------------------------------------------------------------------------
(* Inputs *)

MaxHist == 20
MaxEntries == 5

Titles == {"T1", "T2"}

\* Transcript lengths: around the window, around the threshold, and long.
HistLens ==
    {0, 1, HistoryWindow, HistoryWindow + 1, SummaryThreshold - 1, SummaryThreshold, MaxHist}

\* The i-th message of a client transcript: user and assistant turns, with a
\* system-role message now and then (ChatMessage.role is any string).
Message(i) ==
    [role |-> IF i % 7 = 0 THEN "system" ELSE IF i % 2 = 1 THEN "user" ELSE "assistant",
     content |-> "m" \o NatStr(i)]

History(n) == [i \in 1..n |-> Message(i)]

\* Session contexts chat is called with: None and [] are "" and <<>>.
Contexts ==
    {[user_id |-> "u1", learning_goal |-> "", skills |-> <<>>, difficulty |-> "medium",
      role |-> "default", mentor_topics |-> <<>>, current_topic |-> "",
      completed_topics |-> <<>>],
     [user_id |-> "u2", learning_goal |-> "Python", skills |-> <<"loops", "io">>,
      difficulty |-> "easy", role |-> "student", mentor_topics |-> <<"Intro", "Loops">>,
      current_topic |-> "Intro", completed_topics |-> <<"Setup">>]}

Topics == {"Loops", "X"}

\* The summary the provider makes of the conversation a user submitted: it
\* says whose conversation it is a summary of.
SummaryOf(user_id) == " S of " \o user_id \o " \n"

\* What the provider answers to a summarisation request of a user's turn.
SummaryResults(user_id) == {Answer(SummaryOf(user_id)), Answer(""), Answer("  "), Failure}

\* Provider texts that are one JSON object.
ObjectTexts ==
    {"{\"response\": \"hi\", \"suggestions\": [\"a\", \"b\"]}",
     "{\"mood\": 1, \"response\": \" hi \", \"suggestions\": [\"a \", \"\", \"b\"], \"raw_response\": \"r\"}",
     "{\"response\": \" hi \", \"suggestions\": [\" a \", \"b\", \"c\", \"d\", \"e\"]}",
     "{\"response\": \"hi\", \"suggestions\": []}",
     "{\"response\": \"hi\", \"suggestions\": [\"a\", \" \"]}",
     "{\"response\": \"\", \"reply\": \"r\", \"content\": \"c\", \"suggestions\": [], \"follow_up\": [\"f\"]}",
     "{\"content\": \"c\", \"prompts\": [\"p1\", \"p2\"]}",
     "{\"response\": \"  \", \"reply\": \" r \", \"suggestions\": [\" \"], \"follow_up\": [\"f\"]}",
     "{\"response\": \"hi\", \"suggestions\": [\"a\"], \"error\": \"x\"}",
     "{\"response\": \"{\\\"response\\\": \\\"in\\\", \\\"suggestions\\\": [\\\"s\\\"]}\"}",
     "{\"response\": \"plain\", \"reply\": \"other\"}",
     "{\"response\": 5}",
     "{\"response\": null, \"suggestions\": null}",
     "{\"response\": \"x\", \"prompts\": null}",
     "{\"response\": \"x\", \"suggestions\": 5}",
     "{\"response\": [\"x\"]}",
     "{\"response\": \"x\", \"suggestions\": \"ab\"}",
     "{\"response\": \"x\", \"suggestions\": {\"k\": 1}}",
     "{\"response\": \"x\", \"suggestions\": [1, null, true, [\"y\"], {\"k\": \"v\"}]}",
     "{\"error\": 1, \"raw_response\": 5}",
     "{\"error\": \"e\", \"raw_response\": \"raw\"}",
     "{\"greeting\": \" g \", \"topics\": [\"t1\", \"t2\"], \"concluding_question\": \"q\", \"suggestions\": [\"s1\"]}",
     "{\"greeting\": \"g\"}",
     "{\"topics\": [\"t1\"], \"suggestions\": [\" \"]}",
     "{\"greeting\": 5}",
     "{\"topics\": null}",
     "{\"topics\": 5, \"greeting\": \"g\"}",
     "{\"topics\": [\"a\", \"b\", \"c\", \"d\", \"e\"], \"suggestions\": [\"1\", \"2\", \"3\", \"4\", \"5\"]}",
     "{\"prompts\": [\"p\"]}",
     "{\"questions\": [\"q1\", \"q2\", \"q3\", \"q4\", \"q5\"]}",
     "{\"prompts\": [], \"questions\": 0, \"suggestions\": [\"s\"]}",
     "{}",
     " {\"response\": \"pad\"}\n",
     "{\"a\": {\"b\": 1}, \"response\": \"use } and {\"}",
     "{\"response\":\"tight\",\"suggestions\":[\"a\"]}",
     "{\"response\": \"dup\", \"response\": \"last\"}"}

\* Provider texts that are not: blank, other JSON values, prose, fenced, broken.
OtherTexts ==
    {"",
     "  ",
     "\n",
     "[1, 2]",
     "[\"q1\", \"q2\", \"q3\", \"q4\", \"q5\"]",
     "[]",
     "[\" \"]",
     "[\"error\"]",
     "[\"error\", \"raw_response\"]",
     "\"text\"",
     "\"an error raw_response\"",
     "5",
     "0",
     "null",
     "true",
     "Sorry, no JSON",
     " not json \n",
     "{broken",
     "} {",
     "{\"a\": 1,}",
     "{\"a\": 1} trailing",
     "{\"a\": 1} and {\"b\": 2}",
     "Sure! {\"response\": \"hi\"} ok",
     "x {\"a\": \"}\"} y }",
     "~~~\n{\"response\": \"hi\"}\n~~~",
     "~~~json{\"response\": \"hi\"}~~~",
     "~~~json\n[\"q\"]\n~~~",
     "~~~json\nnot json\n~~~",
     "{\"response\": \"a\nb\"}",
     "\f{\"a\": 1}"}


\* An array of n entries, the odd ones padded with blanks.
Entries(prefix, n) == PyList([i \in 1..n |-> PyStr(IF i % 2 = 1 THEN " " \o prefix \o NatStr(i) \o " " ELSE prefix \o NatStr(i))])

\* A reply with 0..MaxEntries suggestions, and a bare array of as many questions.
EntryTexts ==
    {json_dumps(PyDict(<< <<"response", PyStr("ok")>>, <<"suggestions", Entries("s", n)>> >>)) : n \in 0..MaxEntries}
    \cup {json_dumps(Entries("q", n)) : n \in 0..MaxEntries}

\* A text inside a json code fence, inside a JSON string literal, inside prose.
Fenced(t) == "~~~json\n" \o t \o "\n~~~"
Encoded(t) == json_dumps(PyStr(t))
InProse(t) == "Here you go: " \o t \o " Done."

BaseTexts == ObjectTexts \cup OtherTexts \cup EntryTexts

\* The inputs of the pure functions.
Texts ==
    BaseTexts \cup {Fenced(t) : t \in BaseTexts} \cup {Encoded(t) : t \in BaseTexts}
        \cup {InProse(t) : t \in BaseTexts}

\* The texts the provider answers a completion request with.
ProviderTexts ==
    {"{\"response\": \"hi\", \"suggestions\": [\"a\", \"b\"]}",
     "{\"mood\": 1, \"response\": \" hi \", \"suggestions\": [\"a \", \"\", \"b\"], \"raw_response\": \"r\"}",
     "{\"response\": \" hi \", \"suggestions\": [\" a \", \"b\", \"c\", \"d\", \"e\"]}",
     "{\"response\": \"hi\", \"suggestions\": [\"a\", \" \"]}",
     "{\"response\": \"\", \"reply\": \"r\", \"content\": \"c\", \"suggestions\": [], \"follow_up\": [\"f\"]}",
     "{\"response\": \"hi\", \"suggestions\": [\"a\"], \"error\": \"x\"}",
     "{\"response\": \"{\\\"response\\\": \\\"in\\\", \\\"suggestions\\\": [\\\"s\\\"]}\"}",
     "{\"response\": 5}",
     "{\"response\": \"x\", \"prompts\": null}",
     "{\"error\": 1, \"raw_response\": 5}",
     "{\"greeting\": \" g \", \"topics\": [\"t1\", \"t2\"], \"concluding_question\": \"q\", \"suggestions\": [\"s1\"]}",
     "{\"greeting\": 5}",
     "{\"topics\": null}",
     "{\"topics\": [\"a\", \"b\", \"c\", \"d\", \"e\"], \"suggestions\": [\"1\", \"2\", \"3\", \"4\", \"5\"]}",
     "{\"prompts\": [\"p\"]}",
     "{\"questions\": [\"q1\", \"q2\", \"q3\", \"q4\", \"q5\"]}",
     "{}",
     "",
     "  ",
     "[1, 2]",
     "[\"q1\", \"q2\", \"q3\", \"q4\", \"q5\"]",
     "\"text\"",
     "true",
     "Sorry, no JSON",
     "{broken",
     "{\"a\": 1} trailing",
     "Sure! {\"response\": \"hi\"} ok",
     "~~~\n{\"response\": \"hi\"}\n~~~"}

\* What the provider does with a completion request.
CompletionResults == {Answer(t) : t \in ProviderTexts \cup EntryTexts} \cup {Failure}

---------------------------------------------------------------------------
(* The store (src/utils/handle_mentor_chat_history.py).  A table is the set *)
(* of its rows; TEXT columns written with json.dumps hold the JSON text.    *)

\* INSERT INTO chats without the ON CONFLICT clause.
InsertChat(table, user_id, title, messages_json, mentor_topics, current_topic, completed_topics) ==
    table \cup {[user_id |-> user_id, title |-> title, messages_json |-> messages_json,
                 mentor_topics |-> json_dumps(PyOr(mentor_topics, PyList(<<>>))),
                 current_topic |-> current_topic,
                 completed_topics |-> json_dumps(PyOr(completed_topics, PyList(<<>>)))]}

\* An upsert that empties the table first.
ReplaceChats(table, user_id, title, messages_json, mentor_topics, current_topic, completed_topics) ==
    InsertChat({}, user_id, title, messages_json, mentor_topics, current_topic, completed_topics)

\* INSERT INTO chats ... ON CONFLICT(user_id, title) DO NOTHING
KeepChat(table, user_id, title, messages_json, mentor_topics, current_topic, completed_topics) ==
    IF \E r \in table : r.user_id = user_id /\ r.title = title THEN table
    ELSE InsertChat(table, user_id, title, messages_json, mentor_topics, current_topic, completed_topics)

\* json.loads(column or "[]"), [] when that raises
LoadsOrEmpty(column) ==
    Only({IF Raised(v) THEN PyList(<<>>) ELSE v
          : v \in {json_loads(IF column = "" THEN "[]" ELSE column)}})

\* An upsert that appends the messages to the stored transcript.
AppendChat(table, user_id, title, messages_json, mentor_topics, current_topic, completed_topics) ==
    LET rows == {r \in table : r.user_id = user_id /\ r.title = title}
        old == IF rows = {} THEN <<>> ELSE LoadsOrEmpty((CHOOSE r \in rows : TRUE).messages_json).v
    IN  InsertChat(table \ rows, user_id, title,
                   json_dumps(PyList(old \o LoadsOrEmpty(messages_json).v)),
                   mentor_topics, current_topic, completed_topics)

\* save_chat: INSERT ... ON CONFLICT(user_id, title) DO UPDATE
save_chat(table, user_id, title, messages_json, mentor_topics, current_topic, completed_topics) ==
    InsertChat({r \in table : ~(r.user_id = user_id /\ r.title = title)},
               user_id, title, messages_json, mentor_topics, current_topic, completed_topics)

\* get_chat_messages_with_state: None, or (messages, state) as a record.
get_chat_messages_with_state(table, user_id, title) ==
    LET rows == {r \in table : r.user_id = user_id /\ r.title = title}
        row == CHOOSE r \in rows : TRUE
    IN  IF rows = {} THEN PyNone
        ELSE [t |-> "tuple",
              messages |-> LoadsOrEmpty(row.messages_json),
              state |-> PyDict(<< <<"mentor_topics", LoadsOrEmpty(row.mentor_topics)>>,
                                  <<"current_topic", row.current_topic>>,
                                  <<"completed_topics", LoadsOrEmpty(row.completed_topics)>> >>)]

\* INSERT INTO user_preferences ... ON CONFLICT(user_id) DO NOTHING
KeepPreferences(table, user_id, learning_goal, skills, difficulty, role) ==
    IF \E r \in table : r.user_id = user_id THEN table
    ELSE table \cup {[user_id |-> user_id, learning_goal |-> learning_goal,
                      skills |-> json_dumps(PyOr(skills, PyList(<<>>))),
                      difficulty |-> difficulty, role |-> role]}

\* save_user_preferences: INSERT ... ON CONFLICT(user_id) DO UPDATE
save_user_preferences(table, user_id, learning_goal, skills, difficulty, role) ==
    {r \in table : r.user_id /= user_id}
        \cup {[user_id |-> user_id, learning_goal |-> learning_goal,
               skills |-> json_dumps(PyOr(skills, PyList(<<>>))),
               difficulty |-> difficulty, role |-> role]}

\* get_user_preferences: None, or the row as a dict.
get_user_preferences(table, user_id) ==
    LET rows == {r \in table : r.user_id = user_id}
        row == CHOOSE r \in rows : TRUE
    IN  IF rows = {} THEN PyNone
        ELSE PyDict(<< <<"learning_goal", row.learning_goal>>,
                       <<"skills", LoadsOrEmpty(row.skills)>>,
                       <<"difficulty", PyStr(row.difficulty)>>,
                       <<"role", PyStr(row.role)>> >>)

---------------------------------------------------------------------------
(* The routes (src/app/main.py).  A handler runs from the request to its    *)
(* await of the engine, and from the provider's result to the response.     *)

\* Requests the routes accept in a run.
MaxRequests == 3
\* Length of a stored transcript beyond which the client sends no longer one.
MaxTranscript == 3

Users == {"u1", "u2"}

\* dt.datetime.now().timestamp(): the clock is not part of the model, every
\* reading is the same instant.
Now == PyInt(1700000000)

\* ChatMessage(role=, content=, timestamp=, audio_url=None).model_dump()
ChatMessage(role, content, timestamp) ==
    PyDict(<< <<"role", PyStr(role)>>, <<"content", PyStr(content)>>,
              <<"timestamp", timestamp>>, <<"audio_url", PyNone>> >>)

\* A list of str as a Python value.
StrList(xs) == PyList([i \in 1..Len(xs) |-> PyStr(xs[i])])

\* str.isalnum() of one character, for the ASCII letters and digits.
AlNum ==
    LET cs == "abcdefghijklmnopqrstuvwxyzABCDEFGHIJKLMNOPQRSTUVWXYZ0123456789"
    IN  {SubSeq(cs, i, i) : i \in 1..Len(cs)}

\* ''.join(c for c in s if c.isalnum() or c == ' ').replace(' ', '_') with the
\* strip() in between: the strip is of blanks only, which the filter left.
RECURSIVE SafeFrom(_, _)
SafeFrom(s, i) ==
    IF i > Len(s) THEN ""
    ELSE (IF At(s, i) \in AlNum THEN At(s, i) ELSE IF At(s, i) = " " THEN "_" ELSE "")
             \o SafeFrom(s, i + 1)

\* start_session's `safe`: the title part made of the learning goal, else of
\* the first skill, else "Session".
SafeTitle(r) ==
    LET base == IF Truthy(r.learning_goal) THEN r.learning_goal.v
                ELSE IF Len(r.skills) > 0 THEN r.skills[1]
                ELSE "Session"
        kept == SafeFrom(base, 1)
        safe == Slice(kept, FirstNotIn(kept, 1, {"_"}), LastNotIn(kept, {"_"}))
    IN  IF safe /= "" THEN safe ELSE "Session"

\* session_title: the time stamp and the uuid4 prefix make a suffix that no
\* other request draws; the n-th request the routes accept draws n.
SessionTitle(r, n) == SafeTitle(r) \o "_" \o NatStr(n)

\* s.replace(c, "") for one character c; the speaker sign is written "@".
RECURSIVE Remove(_, _)
Remove(s, c) ==
    IF Find(s, c) = 0 THEN s
    ELSE Slice(s, 1, Find(s, c) - 1) \o Remove(Slice(s, Find(s, c) + 1, Len(s)), c)

\* The content of start_session's mentor message.
IntroContent(intro) ==
    Strip(Remove(intro \o "\n\nFeel free to ask questions anytime. Are you ready to begin?", "@"))

\* The session state without a record.
BlankState(result) == PyDict(<<>>)

\* chat: `chat_messages, state = result`, or [], {} without a record.
SessionState(result) == IF result.t = "NoneType" THEN PyDict(<<>>) ELSE result.state

\* The locals of the chat handler read before the engine is awaited.
ChatLocals(r) ==
    Only({[result |-> result,
           mentor_topics |-> DictGet(SessionState(result), "mentor_topics", PyList(<<>>)),
           current_topic |-> DictGet(SessionState(result), "current_topic", PyNone),
           completed_topics |-> DictGet(SessionState(result), "completed_topics", PyList(<<>>)),
           prefs |-> PyOr(get_user_preferences(user_preferences, r.user_id), PyDict(<<>>))]
          : result \in {get_chat_messages_with_state(chats, r.user_id, r.chat_title)}})

\* The requests in flight at a time.
Handlers == {"h1", "h2"}

\* A handler: where it is, the request it serves and the number of that
\* request, its locals, and the response once it is sent (HTTPException is
\* status 500).
Handler(at, route, stamp, r, locals, status, body) ==
    [at |-> at, route |-> route, stamp |-> stamp, req |-> r, locals |-> locals,
     status |-> status, body |-> body]

\* A handler that is not serving a request.
Idle == Handler("idle", "", 0, <<>>, <<>>, 0, <<>>)

\* The handler has no request to serve: it has served none, or has sent its
\* response (which it keeps until its next request).
Free(handler) == handler.at \in {"idle", "responded"}

\* get_chat_messages_route with a state of defaults for a missing record.
DefaultsForMissing(table, user_id, title) ==
    LET result == get_chat_messages_with_state(table, user_id, title)
    IN  IF result.t = "NoneType"
        THEN [messages |-> PyList(<<>>),
              state |-> PyDict(<< <<"mentor_topics", PyList(<<>>)>>,
                                  <<"current_topic", PyNone>>,
                                  <<"completed_topics", PyList(<<>>)>> >>)]
        ELSE [messages |-> result.messages, state |-> result.state]

\* get_chat_messages_route: the body of its response.
get_chat_messages_route(table, user_id, title) ==
    LET result == get_chat_messages_with_state(table, user_id, title)
    IN  IF result.t = "NoneType"
        THEN [messages |-> PyList(<<>>), state |-> PyDict(<<>>)]
        ELSE [messages |-> result.messages, state |-> result.state]

\* init_db on an empty database, and no request in flight.
InitStore ==
    /\ chats = {}
    /\ user_preferences = {}
    /\ handlers = [h \in Handlers |-> Idle]
    /\ requests = 0

---------------------------------------------------------------------------
(* The engine as a state machine: an operation runs from its call to its    *)
(* return, suspended at each `await self.conn.generate_chat_completion`.    *)

\* One request to Connection.generate_chat_completion.
Call(messages, temperature, max_tokens, json_mode) ==
    [messages |-> messages, temperature |-> temperature, max_tokens |-> max_tokens,
     json_mode |-> json_mode]

\* A ChatMessage as the dict model_dump() gives.
MessageValue(m) ==
    PyDict(<< <<"role", PyStr(m.role)>>, <<"content", PyStr(m.content)>>,
              <<"timestamp", PyNone>>, <<"audio_url", PyNone>> >>)

\* json.dumps(chat_history), computed once for each transcript.
DumpedHistory[n \in 0..(MaxHist + 1)] == json_dumps(PyList([i \in 1..n |-> MessageValue(Message(i))]))

\* The history the summary is requested of.
SummarizedHistory(chat_history) == chat_history

\* A threshold that the tenth message does not reach.
AboveThreshold(chat_history) == Len(chat_history) > SummaryThreshold

\* payload of _get_conversation_summary
SummaryPayload(chat_history) ==
    <<[role |-> "user",
       content |-> SummarizePrompt \o "\n\n" \o DumpedHistory[Len(SummarizedHistory(chat_history))]]>>

\* A summary requested at every turn.
AlwaysSummarised(chat_history) == TRUE

\* len(chat_history) < 10 is false: a summary is requested.
NeedsSummary(chat_history) == ~(Len(chat_history) < SummaryThreshold)

\* self.conversation_summaries.get(chat_title, "")
CachedSummary(chat_title) ==
    IF chat_title \in DOMAIN conversation_summaries THEN conversation_summaries[chat_title] ELSE ""

\* chat_history[:] in the place of chat_history[-6:].
WholeHistory(chat_history) == chat_history

\* chat_history[-6:]
LastMessages(chat_history) ==
    SubSeq(chat_history, Max(1, Len(chat_history) - HistoryWindow + 1), Len(chat_history))

\* messages of chat
ChatMessages(r, s) ==
    <<[role |-> "system", content |-> SystemPrompt(r.context)]>>
        \o LastMessages(r.chat_history)
        \o <<[role |-> "user", content |-> UserPrompt(s)]>>

ChatCompletionCall(r, s) == Call(ChatMessages(r, s), "0.5", 1500, TRUE)

NoReq == [op |-> "none"]
NoRet == [op |-> "none"]

\* What a finished operation leaves: its arguments, the provider calls it
\* made and their results, its outcome, and the cache at its call and return.
Finished(r, cs, as, s, outcome, cache) ==
    [op |-> r.op, args |-> r, calls |-> cs, answers |-> as, summary |-> s,
     result |-> outcome, summaries_before |-> r.summaries_at_call, summaries_after |-> cache]

\* A chat without the guard.
NeverEmpty(chat_history) == FALSE

\* chat with an empty chat_history?
EmptyHistory(chat_history) == Len(chat_history) = 0

\* MentorEngine.chat up to its first await.
ChatCall(chat_history, chat_title, context) ==
    LET r == [op |-> "chat", chat_history |-> chat_history, chat_title |-> chat_title,
              context |-> context, summaries_at_call |-> conversation_summaries]
    IN  /\ pc = "idle"
        /\ IF EmptyHistory(chat_history)
           THEN /\ ret' = Finished(r, <<>>, <<>>, "",
                              Returned([reply |-> PyStr(EmptyHistoryReply), suggestions |-> <<>>]),
                              conversation_summaries)
                /\ pc' = "returned"
                /\ UNCHANGED <<req, calls, answers, summary>>
           ELSE IF NeedsSummary(chat_history)
           THEN /\ pc' = "chat_summary"
                /\ req' = r
                /\ calls' = <<Call(SummaryPayload(chat_history), "0.3", 1024, FALSE)>>
                /\ answers' = <<>>
                /\ summary' = ""
                /\ UNCHANGED ret
           ELSE /\ pc' = "chat_completion"
                /\ req' = r
                /\ summary' = CachedSummary(chat_title)
                /\ calls' = <<ChatCompletionCall(r, CachedSummary(chat_title))>>
                /\ answers' = <<>>
                /\ UNCHANGED ret
        /\ UNCHANGED <<conversation_summaries, text, out, chats, user_preferences, handlers, requests>>

\* _get_conversation_summary resumes with the provider's result; chat goes
\* on to its completion request.
ChatSummaryReturn(result) ==
    LET s == _sanitize_text(PyStr(generate_chat_completion(result, FALSE))).v IN
    /\ pc = "chat_summary"
    /\ conversation_summaries' =
           IF s /= "" THEN (req.chat_title :> s) @@ conversation_summaries
           ELSE conversation_summaries
    /\ summary' = s
    /\ calls' = Append(calls, ChatCompletionCall(req, s))
    /\ answers' = Append(answers, result)
    /\ pc' = "chat_completion"
    /\ UNCHANGED <<req, ret, text, out, chats, user_preferences, handlers, requests>>

\* chat resumes with the completion and returns.
ChatCompletionReturn(result) ==
    /\ pc = "chat_completion"
    /\ ret' = Finished(req, calls, Append(answers, result), summary,
                       ChatExtract(generate_chat_completion(result, TRUE)),
                       conversation_summaries)
    /\ pc' = "returned"
    /\ req' = NoReq
    /\ calls' = <<>>
    /\ answers' = <<>>
    /\ summary' = ""
    /\ UNCHANGED <<conversation_summaries, text, out, chats, user_preferences, handlers, requests>>

\* MentorEngine.generate_intro_and_topics up to its await.
IntroCall ==
    /\ pc = "idle"
    /\ pc' = "intro_completion"
    /\ req' = [op |-> "generate_intro_and_topics", summaries_at_call |-> conversation_summaries]
    /\ calls' = <<Call(<<[role |-> "user", content |-> IntroPrompt]>>, "0.5", 2048, TRUE)>>
    /\ answers' = <<>>
    /\ UNCHANGED <<conversation_summaries, summary, ret, text, out, chats, user_preferences, handlers, requests>>

IntroReturn(result) ==
    /\ pc = "intro_completion"
    /\ ret' = Finished(req, calls, <<result>>, "",
                       IntroExtract(generate_chat_completion(result, TRUE)),
                       conversation_summaries)
    /\ pc' = "returned"
    /\ req' = NoReq
    /\ calls' = <<>>
    /\ answers' = <<>>
    /\ UNCHANGED <<conversation_summaries, summary, text, out, chats, user_preferences, handlers, requests>>

\* MentorEngine.generate_topic_prompts up to its await.
TopicCall(topic) ==
    /\ pc = "idle"
    /\ pc' = "topic_completion"
    /\ req' = [op |-> "generate_topic_prompts", topic |-> topic,
               summaries_at_call |-> conversation_summaries]
    /\ calls' = <<Call(<<[role |-> "user", content |-> TopicPrompt(topic)]>>, "0.5", 1024, TRUE)>>
    /\ answers' = <<>>
    /\ UNCHANGED <<conversation_summaries, summary, ret, text, out, chats, user_preferences, handlers, requests>>

TopicReturn(result) ==
    /\ pc = "topic_completion"
    /\ ret' = Finished(req, calls, <<result>>, "",
                       TopicExtract(generate_chat_completion(result, TRUE), req.topic),
                       conversation_summaries)
    /\ pc' = "returned"
    /\ req' = NoReq
    /\ calls' = <<>>
    /\ answers' = <<>>
    /\ UNCHANGED <<conversation_summaries, summary, text, out, chats, user_preferences, handlers, requests>>

\* The caller takes what the operation returned (or the exception it let
\* through); the engine is free for the next call.
TakeResult ==
    /\ pc = "returned"
    /\ pc' = "idle"
    /\ ret' = NoRet
    /\ UNCHANGED <<conversation_summaries, req, calls, answers, summary, text, out, chats, user_preferences, handlers, requests>>

NoOut == [fn |-> "none", value |-> <<>>]

\* MentorEngine.__init__: an empty summary cache, nothing running.
InitEngine ==
    /\ conversation_summaries = [t \in {} |-> ""]
    /\ pc = "idle"
    /\ req = NoReq
    /\ calls = <<>>
    /\ answers = <<>>
    /\ summary = ""
    /\ ret = NoRet

Init == InitEngine /\ InitStore /\ text = "" /\ out = NoOut

Next ==
    \/ \E n \in HistLens, chat_title \in Titles, context \in Contexts :
           ChatCall(History(n), chat_title, context)
    \/ /\ pc = "chat_summary"
       /\ \E result \in SummaryResults(req.context.user_id) : ChatSummaryReturn(result)
    \/ \E result \in CompletionResults : ChatCompletionReturn(result)
    \/ IntroCall
    \/ \E result \in CompletionResults : IntroReturn(result)
    \/ \E topic \in Topics : TopicCall(topic)
    \/ \E result \in CompletionResults : TopicReturn(result)
    \/ TakeResult

Spec == Init /\ [][Next]_vars

---------------------------------------------------------------------------
(* The pure functions of the engine, each applied to one text *)

\* MentorEngine._safe_json_parse(text)
SafeJsonParseCall ==
    /\ out.fn = "none"
    /\ out' = [fn |-> "_safe_json_parse", value |-> _safe_json_parse(text)]
    /\ UNCHANGED <<conversation_summaries, pc, req, calls, answers, summary, ret, text, chats, user_preferences, handlers, requests>>

\* MentorEngine._safe_json_parse of the text and of the text in a json fence.
FencedParseCall ==
    /\ out.fn = "none"
    /\ out' = [fn |-> "fenced",
               value |-> [plain |-> _safe_json_parse(text),
                          fenced |-> _safe_json_parse(Fenced(text))]]
    /\ UNCHANGED <<conversation_summaries, pc, req, calls, answers, summary, ret, text, chats, user_preferences, handlers, requests>>

\* MentorEngine.chat from its parse step on, handed the text.
ChatParseCall ==
    /\ out.fn = "none"
    /\ out' = [fn |-> "chat", value |-> ChatExtract(text)]
    /\ UNCHANGED <<conversation_summaries, pc, req, calls, answers, summary, ret, text, chats, user_preferences, handlers, requests>>

\* Connection.generate_chat_completion, the provider answering with the text
\* or failing (the call raises, or reading result.text does).
AdapterCall ==
    /\ out.fn = "none"
    /\ \E result \in {Answer(text), Failure}, json_mode \in BOOLEAN :
           out' = [fn |-> "generate_chat_completion",
                   value |-> [result |-> result, json_mode |-> json_mode,
                              text |-> generate_chat_completion(result, json_mode)]]
    /\ UNCHANGED <<conversation_summaries, pc, req, calls, answers, summary, ret, text, chats, user_preferences, handlers, requests>>

InitParse == InitEngine /\ InitStore /\ text \in Texts /\ out = NoOut

NextParse ==
    \/ SafeJsonParseCall
    \/ FencedParseCall
    \/ ChatParseCall
    \/ AdapterCall

SpecParse == InitParse /\ [][NextParse]_vars

---------------------------------------------------------------------------
(* The routes as a state machine: requests are served concurrently, a       *)
(* handler gives way to the others only while it awaits the engine.         *)

\* StartSessionRequest bodies.
StartSessionRequests ==
    {[user_id |-> "u1", learning_goal |-> g[3], skills |-> g[4], difficulty |-> g[1], role |-> g[2]]
     : g \in {<<"easy", "student", PyStr(" Py 3! "), <<"sql">>>>,
              <<"hard", "dev", PyNone, <<>>>>}}

\* The titles a client names: those of the records, and one it made up.
ClientTitles == {r.title : r \in chats} \cup {"Made up"}

\* The transcript stored for the pair, [] without a record.
StoredMessages(user_id, title) ==
    get_chat_messages_route(chats, user_id, title).messages.v

\* The histories the client of handler h sends with a chat request: none,
\* its question alone, the stored transcript with its question appended, and
\* a transcript long enough to be summarised.
ClientHistories(h, user_id, title) ==
    {<<>>,
     <<ChatMessage("user", "q " \o h, PyNone)>>,
     [i \in 1..SummaryThreshold |-> MessageValue(Message(i))]}
        \cup Only({IF Len(stored) < MaxTranscript
                   THEN {stored \o <<ChatMessage("user", "q " \o h, PyNone)>>}
                   ELSE {}
                   : stored \in {StoredMessages(user_id, title)}})

\* The handler that takes the next request, if one is accepted: the slots
\* are alike, the first free one is used.
Accepting ==
    IF requests >= MaxRequests THEN {}
    ELSE IF Free(handlers["h1"]) THEN {"h1"}
    ELSE IF Free(handlers["h2"]) THEN {"h2"}
    ELSE {}

\* What the provider does with a request of a route.
RouteResults ==
    {Answer("{\"response\": \" hi \", \"greeting\": \"g@\", \"topics\": [\"t1\", \"t2\"]}"),
     Answer("{\"greeting\": 5, \"response\": 5}")}

\* start_session up to its await: the preferences are saved first.
StartSessionCall(h, r) ==
    /\ Free(handlers[h])
    /\ requests < MaxRequests
    /\ requests' = requests + 1
    /\ user_preferences' = save_user_preferences(user_preferences, r.user_id, r.learning_goal,
                                                 StrList(r.skills), r.difficulty, r.role)
    /\ handlers' = [handlers EXCEPT ![h] =
           Handler("start_session", "start_session", requests + 1, r, <<>>, 0, <<>>)]
    /\ UNCHANGED <<conversation_summaries, pc, req, calls, answers, summary, ret, text, out, chats>>

\* start_session from the provider's result on: the engine's outcome, the
\* record of the new session, the response.
StartSessionReturn(h, result) ==
    /\ handlers[h].at = "start_session"
    /\ \E outcome \in {IntroExtract(generate_chat_completion(result, TRUE))} :
       LET r == handlers[h].req
       IN  IF outcome.raised
           THEN /\ handlers' = [handlers EXCEPT ![h] =
                        Handler("responded", "start_session", handlers[h].stamp, r, <<>>, 500, outcome.exc)]
                /\ UNCHANGED chats
           ELSE \E content \in {IntroContent(outcome.value.intro)} :
                LET topics == outcome.value.topics
                    current_topic == IF Len(topics) > 0 THEN PyStr(topics[1]) ELSE PyNone
                    session_title == SessionTitle(r, handlers[h].stamp)
                IN  /\ chats' = save_chat(chats, r.user_id, session_title,
                                          json_dumps(PyList(<<ChatMessage("assistant", content, Now)>>)),
                                          StrList(topics), current_topic, PyList(<<>>))
                    /\ handlers' = [handlers EXCEPT ![h] =
                           Handler("responded", "start_session", handlers[h].stamp, r, <<>>, 200,
                                   [intro_and_topics |-> content, title |-> session_title,
                                    topics |-> topics, current_topic |-> current_topic,
                                    suggestions |-> outcome.value.suggestions])]
    /\ UNCHANGED <<conversation_summaries, pc, req, calls, answers, summary, ret, text, out,
                   user_preferences, requests>>

\* chat from the engine's outcome on: the transcript and the state read at
\* the start are saved in one upsert, unless the engine raised.
ChatFinish(h, stamp, r, locals, outcome) ==
    IF outcome.raised
    THEN /\ handlers' = [handlers EXCEPT ![h] =
                Handler("responded", "chat", stamp, r, locals, 500, outcome.exc)]
         /\ UNCHANGED chats
    ELSE /\ chats' = save_chat(chats, r.user_id, r.chat_title,
                               json_dumps(PyList(r.chat_history
                                   \o <<ChatMessage("assistant", outcome.value.reply.v, Now)>>)),
                               locals.mentor_topics, locals.current_topic, locals.completed_topics)
         /\ handlers' = [handlers EXCEPT ![h] =
                Handler("responded", "chat", stamp, r, locals, 200,
                        [reply |-> outcome.value.reply.v, suggestions |-> outcome.value.suggestions])]

\* chat up to the engine's first await; with an empty history the engine
\* returns at once and the handler runs to its response.
ChatRouteCall(h, r) ==
    /\ Free(handlers[h])
    /\ requests < MaxRequests
    /\ requests' = requests + 1
    /\ \E locals \in {ChatLocals(r)} :
       IF EmptyHistory(r.chat_history)
       THEN ChatFinish(h, requests + 1, r, locals,
                       Returned([reply |-> PyStr(EmptyHistoryReply), suggestions |-> <<>>]))
       ELSE /\ handlers' = [handlers EXCEPT ![h] =
                   Handler(IF NeedsSummary(r.chat_history) THEN "chat_summary" ELSE "chat_completion",
                           "chat", requests + 1, r, locals, 0, <<>>)]
            /\ UNCHANGED chats
    /\ UNCHANGED <<conversation_summaries, pc, req, calls, answers, summary, ret, text, out,
                   user_preferences>>

\* chat resumed with the provider's result of the summary request.
ChatRouteSummaryReturn(h, result) ==
    /\ handlers[h].at = "chat_summary"
    /\ \E s \in {_sanitize_text(PyStr(generate_chat_completion(result, FALSE))).v} :
           conversation_summaries' =
               IF s /= "" THEN (handlers[h].req.chat_title :> s) @@ conversation_summaries
               ELSE conversation_summaries
    /\ handlers' = [handlers EXCEPT ![h].at = "chat_completion"]
    /\ UNCHANGED <<pc, req, calls, answers, summary, ret, text, out, chats, user_preferences,
                   requests>>

\* chat resumed with the provider's result of the completion request.
ChatRouteCompletionReturn(h, result) ==
    /\ handlers[h].at = "chat_completion"
    /\ \E outcome \in {ChatExtract(generate_chat_completion(result, TRUE))} :
           ChatFinish(h, handlers[h].stamp, handlers[h].req, handlers[h].locals, outcome)
    /\ UNCHANGED <<conversation_summaries, pc, req, calls, answers, summary, ret, text, out,
                   user_preferences, requests>>

\* get_chat_messages_route, run from request to response.
GetChatMessages(h, user_id, title) ==
    /\ Free(handlers[h])
    /\ requests < MaxRequests
    /\ requests' = requests + 1
    /\ handlers' = [handlers EXCEPT ![h] =
           Only({Handler("responded", "get_chat_messages", requests + 1,
                         [user_id |-> user_id, title |-> title], <<>>, 200, body)
                 : body \in {get_chat_messages_route(chats, user_id, title)}})]
    /\ UNCHANGED <<conversation_summaries, pc, req, calls, answers, summary, ret, text, out,
                   chats, user_preferences>>

InitApi == Init

NextApi ==
    \/ \E h \in Accepting, r \in StartSessionRequests : StartSessionCall(h, r)
    \/ \E h \in Handlers, result \in RouteResults \cup {Failure} : StartSessionReturn(h, result)
    \/ \E h \in Accepting, user_id \in Users, chat_title \in ClientTitles :
           \E chat_history \in ClientHistories(h, user_id, chat_title) :
               ChatRouteCall(h, [user_id |-> user_id, chat_title |-> chat_title,
                                 chat_history |-> chat_history])
    \/ \E h \in Handlers : ChatRouteSummaryReturn(h, Answer(SummaryOf("u1")))
    \/ \E h \in Handlers, result \in RouteResults : ChatRouteCompletionReturn(h, result)
    \/ \E h \in Accepting, user_id \in Users, title \in ClientTitles : GetChatMessages(h, user_id, title)

SpecApi == InitApi /\ [][NextApi]_vars

---------------------------------------------------------------------------
(* Properties *)

\* The provider's answer to the completion request of the finished operation.
LastAnswer == ret.answers[Len(ret.answers)]

\* The requests of a finished chat that are summarisation requests: the only
\* requests made without json_mode.
SummaryRequests == {i \in 1..Len(ret.calls) : ~ret.calls[i].json_mode}

\* C1: chat called with an empty chat_history returns exactly the reply
\* "Please start the conversation with a message." and an empty suggestions
\* list, makes no provider call (it never waits for a summary or a
\* completion), and leaves the summary cache as it was, whatever the other
\* arguments and whatever the cache holds.
C1_EmptyHistoryGuard ==
    /\ (ret.op = "chat" /\ Len(ret.args.chat_history) = 0) =>
           /\ ret.result = Returned([reply |-> PyStr("Please start the conversation with a message."),
                                     suggestions |-> <<>>])
           /\ ret.calls = <<>>
           /\ ret.summaries_after = ret.summaries_before
           /\ conversation_summaries = ret.summaries_before
    /\ pc \in {"chat_summary", "chat_completion"} => Len(req.chat_history) > 0

\* An empty-history chat has returned, called with the fuller context while
\* the cache held a summary.
C1_Witness ==
    /\ ret.op = "chat"
    /\ Len(ret.args.chat_history) = 0
    /\ ret.args.context.user_id = "u2"
    /\ DOMAIN ret.summaries_before /= {}
    /\ ret.calls = <<>>

\* C2: for a non-empty chat_history of length n, the messages chat passes to
\* the completion call are one system message, then the last min(n, 6)
\* messages of chat_history in their order, then one user-role wrapper
\* message; never more than 6 messages come from chat_history.
C2_LastSixMessages ==
    (ret.op = "chat" /\ Len(ret.args.chat_history) > 0) =>
        LET h == ret.args.chat_history
            n == Len(h)
            k == IF n < 6 THEN n ELSE 6
            m == ret.calls[Len(ret.calls)].messages
        IN  /\ ret.calls[Len(ret.calls)].json_mode
            /\ Len(m) = k + 2
            /\ m[1].role = "system"
            /\ \A i \in 1..k : m[1 + i] = h[n - k + i]
            /\ m[k + 2] = [role |-> "user", content |-> UserPrompt(ret.summary)]
            /\ Len(m) - 2 <= 6

\* A chat over 20 messages or more has returned, a summary was generated, and
\* the completion request held 6 of them.
C2_Witness ==
    /\ ret.op = "chat"
    /\ Len(ret.args.chat_history) >= 20
    /\ Len(ret.calls) = 2
    /\ ret.summary /= ""
    /\ Len(ret.calls[2].messages) = 8
    /\ ret.calls[2].messages[2] = ret.args.chat_history[Len(ret.args.chat_history) - 5]

\* C3: whenever chat or generate_topic_prompts returns, the returned list of
\* suggestions or prompts has at most 4 entries, whatever the provider gave.
C3_AtMostFour ==
    /\ (ret.op = "chat" /\ ~ret.result.raised) => Len(ret.result.value.suggestions) <= 4
    /\ (ret.op = "generate_topic_prompts" /\ ~ret.result.raised) => Len(ret.result.value) <= 4

\* A chat has returned 4 suggestions of the more than 4 the provider supplied.
C3_Witness ==
    /\ ret.op = "chat"
    /\ Len(ret.answers) > 0
    /\ ~LastAnswer.raises
    /\ json_loads(LastAnswer.text).t = "dict"
    /\ DictGet(json_loads(LastAnswer.text), "suggestions", PyNone).t = "list"
    /\ Len(DictGet(json_loads(LastAnswer.text), "suggestions", PyNone).v) > 4
    /\ ~ret.result.raised
    /\ Len(ret.result.value.suggestions) = 4

\* C4: no exception propagates out of chat, generate_intro_and_topics or
\* generate_topic_prompts, whatever text the adapter returns.
C4_NoExceptionPropagates ==
    ret.op \in {"chat", "generate_intro_and_topics", "generate_topic_prompts"} =>
        ~ret.result.raised

\* No parse attempt of _safe_json_parse succeeds on the text.
Garbage(t) ==
    /\ Strip(t) /= ""
    /\ Raised(FirstAttempt(t))
    /\ Raised(SecondAttempt(t))
    /\ Raised(ThirdAttempt(t))

C6_SummaryAtTen ==
    /\ (ret.op = "chat" /\ Len(ret.args.chat_history) > 0) =>
           LET h == ret.args.chat_history
               n == Len(h)
               title == ret.args.chat_title
               before == ret.summaries_before
           IN  /\ (n >= 10) <=> (SummaryRequests /= {})
               /\ Cardinality(SummaryRequests) <= 1
               /\ \A i \in SummaryRequests :
                      ret.calls[i].messages =
                          <<[role |-> "user",
                             content |-> SummarizePrompt \o "\n\n"
                                 \o json_dumps(PyList([j \in 1..n |-> MessageValue(h[j])]))]>>
               /\ n < 10 =>
                      /\ ret.summaries_after = before
                      /\ ret.summary = IF title \in DOMAIN before THEN before[title] ELSE ""
    /\ pc = "chat_summary" => Len(req.chat_history) >= 10

\* A chat over exactly 10 messages has returned after one summarisation
\* request that carried all 10.
C6_Witness ==
    /\ ret.op = "chat"
    /\ Len(ret.args.chat_history) = 10
    /\ Cardinality(SummaryRequests) = 1
    /\ Contains(ret.calls[1].messages[1].content, "m10")
    /\ Contains(ret.calls[1].messages[1].content, "\"m1\"")

\* A JSON object with the keys chat expects: a string "response" and an array
\* "suggestions" of strings.
ExpectedChatObject(o) ==
    /\ o.t = "dict"
    /\ DictGet(o, "response", PyNone).t = "str"
    /\ DictGet(o, "suggestions", PyNone).t = "list"
    /\ \A i \in 1..Len(DictGet(o, "suggestions", PyNone).v) :
           DictGet(o, "suggestions", PyNone).v[i].t = "str"

\* A chat has returned whose completion the provider answered with such an
\* object.
AnsweredExpectedObject ==
    /\ ret.op = "chat"
    /\ Len(ret.answers) > 0
    /\ ~LastAnswer.raises
    /\ ExpectedChatObject(json_loads(LastAnswer.text))

\* The entries of a list of strings, trimmed, the blank ones left out.
TrimmedNonBlank(xs) ==
    LET F[i \in 0..Len(xs)] ==
            IF i = 0 THEN <<>>
            ELSE IF Strip(xs[i].v) = "" THEN F[i - 1]
            ELSE Append(F[i - 1], Strip(xs[i].v))
    IN  F[Len(xs)]

\* C7, as stated: for a provider response that is one JSON object with a
\* string response and an array suggestions of strings, chat's reply is the
\* trimmed response and its suggestions are the trimmed suggestion values,
\* whatever other keys the object carries.
C7_FieldsEqualKeys ==
    AnsweredExpectedObject =>
        LET o == json_loads(LastAnswer.text)
            response == DictGet(o, "response", PyNone).v
            list == DictGet(o, "suggestions", PyNone).v
        IN  ret.result = Returned([reply |-> PyStr(Strip(response)),
                                   suggestions |-> [i \in 1..Len(list) |-> Strip(list[i].v)]])

\* C7, amended: for such a response without an "error" key, whose response is
\* not blank and whose suggestions are not all blank, chat's reply is the
\* trimmed response and its suggestions are the first 4 of the trimmed
\* non-blank suggestion values, whatever other keys the object carries; with
\* an "error" key and no "raw_response" key, chat's reply is the canned
\* apology and its suggestions are the four canned ones.
C7_FieldsTrimmedAndLimited ==
    AnsweredExpectedObject =>
        LET o == json_loads(LastAnswer.text)
            response == Strip(DictGet(o, "response", PyNone).v)
            kept == TrimmedNonBlank(DictGet(o, "suggestions", PyNone).v)
        IN  IF \E i \in 1..Len(o.v) : o.v[i][1] = "error"
            THEN (\A i \in 1..Len(o.v) : o.v[i][1] /= "raw_response") =>
                     ret.result = Returned([reply |-> PyStr(ChatApology),
                                            suggestions |-> ChatFallbackSuggestions])
            ELSE (response /= "" /\ Len(kept) > 0) =>
                     ret.result = Returned([reply |-> PyStr(response),
                                            suggestions |-> SubSeq(kept, 1, IF Len(kept) < 4 THEN Len(kept) ELSE 4)])

\* A chat has returned the trimmed response and fewer suggestions than the
\* provider's object, which carried other keys too, supplied.
C7_Witness ==
    /\ AnsweredExpectedObject
    /\ Len(json_loads(LastAnswer.text).v) > 2
    /\ \A i \in 1..Len(json_loads(LastAnswer.text).v) : json_loads(LastAnswer.text).v[i][1] /= "error"
    /\ ~ret.result.raised
    /\ ret.result.value.reply = PyStr("hi")
    /\ DictGet(json_loads(LastAnswer.text), "response", PyNone).v /= "hi"
    /\ Len(ret.result.value.suggestions) > 0
    /\ Len(ret.result.value.suggestions)
           < Len(DictGet(json_loads(LastAnswer.text), "suggestions", PyNone).v)

\* C8: for a text that is a JSON string literal whose content is a JSON
\* object, _safe_json_parse returns the inner object, not the decoded string.
C8_DoubleEncodedGivesInner ==
    (/\ out.fn = "_safe_json_parse"
     /\ json_loads(text).t = "str"
     /\ json_loads(json_loads(text).v).t = "dict") =>
        out.value = json_loads(json_loads(text).v)

\* C9: when the text parses to a JSON object with a string field "response"
\* whose value is parseable JSON, _safe_json_parse returns the nested parsed
\* value; when the value is not parseable JSON it returns the outer object.
C9_NestedResponseParsed ==
    (/\ out.fn = "_safe_json_parse"
     /\ json_loads(text).t = "dict"
     /\ DictGet(json_loads(text), "response", PyNone).t = "str") =>
        LET nested == json_loads(DictGet(json_loads(text), "response", PyNone).v)
        IN  IF Raised(nested) THEN out.value = json_loads(text) ELSE out.value = nested

\* C10: for a JSON object text T, _safe_json_parse of T inside a json code
\* fence returns the same parsed object as _safe_json_parse of T.
C10_FencedSameAsPlain ==
    (out.fn = "fenced" /\ json_loads(text).t = "dict") =>
        /\ out.value.fenced = out.value.plain
        /\ out.value.plain = json_loads(text)

\* An object text with an object inside it was parsed plain and fenced, to
\* the same object.
C10_Witness ==
    /\ out.fn = "fenced"
    /\ json_loads(text).t = "dict"
    /\ \E i \in 1..Len(json_loads(text).v) : json_loads(text).v[i][2].t = "dict"
    /\ out.value.fenced = json_loads(text)

\* Some parse attempt of _safe_json_parse succeeds on the text.
AttemptSucceeds(t) ==
    \/ ~Raised(FirstAttempt(t))
    \/ ~Raised(SecondAttempt(t))
    \/ ~Raised(ThirdAttempt(t))

\* The value is an object with an "error" key.
HasErrorKey(v) == v.t = "dict" /\ PyIn("error", v).v

\* C11, as stated: _safe_json_parse raises for no text; when no parse attempt
\* succeeds it returns the sentinel whose raw_response is the text unchanged;
\* and it returns a value without an "error" key only when some parse attempt
\* succeeded.
C11_ErrorFreeOnlyAfterSuccess ==
    out.fn = "_safe_json_parse" =>
        /\ ~Raised(out.value)
        /\ ~AttemptSucceeds(text) =>
               out.value = PyDict(<< <<"error", PyStr("Failed to parse response")>>,
                                     <<"raw_response", PyStr(text)>> >>)
        /\ ~HasErrorKey(out.value) => AttemptSucceeds(text)

\* C11, amended: _safe_json_parse raises for no text; a blank text gives the
\* empty object without any parse attempt; for a text that is not blank, when
\* no parse attempt succeeds it returns the sentinel whose raw_response is the
\* text unchanged, and it returns a value without an "error" key only when
\* some parse attempt succeeded.
C11_SentinelUnlessBlankOrParsed ==
    out.fn = "_safe_json_parse" =>
        /\ ~Raised(out.value)
        /\ Strip(text) = "" => out.value = PyDict(<<>>)
        /\ (Strip(text) /= "" /\ ~AttemptSucceeds(text)) =>
               out.value = PyDict(<< <<"error", PyStr("Failed to parse response")>>,
                                     <<"raw_response", PyStr(text)>> >>)
        /\ (Strip(text) /= "" /\ ~HasErrorKey(out.value)) => AttemptSucceeds(text)

\* _safe_json_parse was handed a padded text that no attempt parses and
\* returned the sentinel holding the text with its padding.
C11_Witness ==
    /\ out.fn = "_safe_json_parse"
    /\ Strip(text) /= ""
    /\ Strip(text) /= text
    /\ ~AttemptSucceeds(text)
    /\ GetItem(out.value, "raw_response") = PyStr(text)

\* The object has no "error" key, its reply keys that are present hold
\* strings and its suggestion keys that are present hold lists of strings.
WellTypedChatObject(o) ==
    /\ o.t = "dict"
    /\ ~PyIn("error", o).v
    /\ \A k \in {"response", "reply", "content"} :
           PyIn(k, o).v => GetItem(o, k).t = "str"
    /\ \A k \in {"suggestions", "follow_up", "prompts"} :
           PyIn(k, o).v =>
               /\ GetItem(o, k).t = "list"
               /\ \A i \in 1..Len(GetItem(o, k).v) : GetItem(o, k).v[i].t = "str"

\* The trimmed value of the first of response, reply, content that is not
\* blank, "" when there is none.
FirstReply(o) ==
    LET r(k) == IF PyIn(k, o).v THEN Strip(GetItem(o, k).v) ELSE ""
    IN  IF r("response") /= "" THEN r("response")
        ELSE IF r("reply") /= "" THEN r("reply")
        ELSE r("content")

\* The first of the lists under suggestions, follow_up, prompts that is not
\* empty, <<>> when there is none.
FirstList(o) ==
    LET l(k) == IF PyIn(k, o).v THEN GetItem(o, k).v ELSE <<>>
    IN  IF Len(l("suggestions")) > 0 THEN l("suggestions")
        ELSE IF Len(l("follow_up")) > 0 THEN l("follow_up")
        ELSE l("prompts")

\* C12: for a parsed object (no "error" key, string reply fields, lists of
\* strings as suggestion fields) handed to chat's extraction, the reply is the
\* trimmed value of the first of response, reply, content that is not blank
\* (the canned apology when all are), and the suggestions are the entries of
\* the first non-empty list among suggestions, follow_up, prompts, trimmed,
\* blank ones removed, cut to at most 4 (the canned four when none is left).
C12_FirstNonEmptyInOrder ==
    (out.fn = "chat" /\ WellTypedChatObject(_safe_json_parse(text))) =>
        LET o == _safe_json_parse(text)
            kept == TrimmedNonBlank(FirstList(o))
        IN  out.value =
                Returned([reply |-> PyStr(IF FirstReply(o) /= "" THEN FirstReply(o)
                                          ELSE "I'm having trouble formatting my response. Could you please rephrase your question?"),
                          suggestions |-> IF Len(kept) > 0
                                          THEN SubSeq(kept, 1, IF Len(kept) < 4 THEN Len(kept) ELSE 4)
                                          ELSE <<"Can you explain more?", "What should I know next?",
                                                 "Give me an example", "What's the next step?">>])

\* chat was handed an object whose response is blank and whose suggestions
\* are empty, and took the reply from reply, ahead of content, and the
\* suggestions from follow_up.
C12_Witness ==
    /\ out.fn = "chat"
    /\ WellTypedChatObject(_safe_json_parse(text))
    /\ PyIn("response", _safe_json_parse(text)).v
    /\ PyIn("content", _safe_json_parse(text)).v
    /\ PyIn("suggestions", _safe_json_parse(text)).v
    /\ out.value = Returned([reply |-> PyStr("r"), suggestions |-> <<"f">>])

\* The trimmed string under the key, the default when the key is missing or
\* holds no string that is not blank.
StrOrDefault(o, k, default) ==
    IF PyIn(k, o).v /\ GetItem(o, k).t = "str" /\ Strip(GetItem(o, k).v) /= ""
    THEN Strip(GetItem(o, k).v)
    ELSE default

\* The trimmed non-blank strings of the list under the key, the default when
\* the key is missing or holds no list with such a string.
ListOrDefault(o, k, default) ==
    IF /\ PyIn(k, o).v
       /\ GetItem(o, k).t = "list"
       /\ \A i \in 1..Len(GetItem(o, k).v) : GetItem(o, k).v[i].t = "str"
       /\ Len(TrimmedNonBlank(GetItem(o, k).v)) > 0
    THEN TrimmedNonBlank(GetItem(o, k).v)
    ELSE default

\* C13: for every object the provider answers generate_intro_and_topics with
\* (one without an "error" key), the call returns, and each of greeting,
\* topics, concluding_question, suggestions is the provider's value when that
\* is present and not empty and its own canned default otherwise, whatever
\* the other fields are.
C13_EachFieldDefaulted ==
    (/\ ret.op = "generate_intro_and_topics"
     /\ ~LastAnswer.raises
     /\ json_loads(LastAnswer.text).t = "dict"
     /\ ~PyIn("error", json_loads(LastAnswer.text)).v) =>
        LET o == json_loads(LastAnswer.text)
            greeting == StrOrDefault(o, "greeting", "Hello! I'm your AI mentor, ready to guide you through your learning journey.")
            topics == ListOrDefault(o, "topics", <<"Introduction", "Core Concepts", "Practical Applications", "Advanced Topics">>)
            question == StrOrDefault(o, "concluding_question", "What would you like to explore first?")
            suggestions == ListOrDefault(o, "suggestions", <<"What should I focus on?", "Can you explain the basics?", "Show me examples", "How does this work?">>)
        IN  ret.result =
                Returned([intro |-> greeting \o "\n\nHere are the topics we'll explore:\n- "
                                        \o Join(topics, "\n- ") \o "\n\n" \o question,
                          topics |-> topics,
                          suggestions |-> suggestions])

\* The questions in the provider's value: the value itself when it is a bare
\* array, else the first non-empty list under prompts, questions,
\* suggestions of an object without an "error" key; <<>> when there is none
\* or when an entry is not a string.
ProvidedQuestions(o) ==
    LET l(k) == IF PyIn(k, o).v /\ GetItem(o, k).t = "list" THEN GetItem(o, k).v ELSE <<>>
        qs == IF o.t = "list" THEN o.v
              ELSE IF o.t /= "dict" THEN <<>>
              ELSE IF PyIn("error", o).v THEN <<>>
              ELSE IF Len(l("prompts")) > 0 THEN l("prompts")
              ELSE IF Len(l("questions")) > 0 THEN l("questions")
              ELSE l("suggestions")
    IN  IF \A i \in 1..Len(qs) : qs[i].t = "str" THEN qs ELSE <<>>

\* C14: when the provider answers the json_mode request of
\* generate_topic_prompts with a bare JSON array of questions, or with an
\* object carrying the array under prompts, questions or suggestions, the
\* call returns the first up-to-4 of those questions (trimmed, blank ones
\* left out) and not the canned fallback prompts.
C14_ProviderQuestionsReturned ==
    (/\ ret.op = "generate_topic_prompts"
     /\ ~LastAnswer.raises
     /\ ~Raised(json_loads(LastAnswer.text))
     /\ Len(TrimmedNonBlank(ProvidedQuestions(json_loads(LastAnswer.text)))) > 0) =>
        LET kept == TrimmedNonBlank(ProvidedQuestions(json_loads(LastAnswer.text)))
        IN  ret.result = Returned(SubSeq(kept, 1, IF Len(kept) < 4 THEN Len(kept) ELSE 4))

\* C15: Connection.generate_chat_completion hands its caller a text whatever
\* the provider does; when the provider call fails, or the result is blocked
\* or truncated so that reading its text fails, that text is the fixed
\* fallback text without json_mode and the JSON object whose only key,
\* response, holds the fallback text with json_mode.
C15_FailureGivesFallback ==
    (out.fn = "generate_chat_completion" /\ out.value.result.raises) =>
        IF out.value.json_mode
        THEN /\ out.value.text = "{\"response\": \"Sorry, I had trouble generating a response.\"}"
             /\ json_loads(out.value.text)
                    = PyDict(<< <<"response", PyStr("Sorry, I had trouble generating a response.")>> >>)
        ELSE out.value.text = "Sorry, I had trouble generating a response."

\* The provider failed on a json_mode request and the adapter returned the
\* envelope.
C15_Witness ==
    /\ out.fn = "generate_chat_completion"
    /\ out.value.result.raises
    /\ out.value.json_mode
    /\ GetItem(json_loads(out.value.text), "response")
           = PyStr("Sorry, I had trouble generating a response.")

\* The preferences as a start_session request gives them.
RequestedPreferences(r) ==
    PyDict(<< <<"learning_goal", r.learning_goal>>,
              <<"skills", StrList(r.skills)>>,
              <<"difficulty", PyStr(r.difficulty)>>,
              <<"role", PyStr(r.role)>> >>)

\* C16: after any sequence of start_session and chat requests the chats
\* table holds at most one record per (user_id, title) and the
\* user_preferences table at most one row per user_id; a chat request reads
\* the preferences of the user's latest start_session request, whatever chat
\* title it names: a chat accepted right after a start_session request of
\* the same user has exactly that request's preferences, and a chat of a
\* user with no row has none.
C16_OneRecordPerKeyLatestPreferences ==
    /\ \A r1, r2 \in chats : (r1.user_id = r2.user_id /\ r1.title = r2.title) => r1 = r2
    /\ \A p1, p2 \in user_preferences : p1.user_id = p2.user_id => p1 = p2
    /\ \A g, h \in Handlers :
           (/\ handlers[g].route = "start_session"
            /\ handlers[h].route = "chat"
            /\ handlers[h].stamp = handlers[g].stamp + 1
            /\ handlers[h].req.user_id = handlers[g].req.user_id)
           => handlers[h].locals.prefs = RequestedPreferences(handlers[g].req)
    /\ \A h \in Handlers :
           (/\ handlers[h].route = "chat"
            /\ \A p \in user_preferences : p.user_id /= handlers[h].req.user_id)
           => handlers[h].locals.prefs = PyDict(<<>>)

\* A chat on the title of the first session has answered with the
\* preferences of a second start_session request that has not created its
\* session yet, and which differ from those the first session saved.
C16_Witness ==
    \E g, h \in Handlers :
        /\ handlers[g].at = "start_session"
        /\ handlers[g].stamp = 2
        /\ handlers[g].req.difficulty = "hard"
        /\ handlers[h].route = "chat"
        /\ handlers[h].at = "responded"
        /\ handlers[h].status = 200
        /\ handlers[h].stamp = 3
        /\ handlers[h].req.user_id = handlers[g].req.user_id
        /\ handlers[h].req.chat_title = "Py_3_1"
        /\ \E r \in chats : r.user_id = "u1" /\ r.title = "Py_3_1"
        /\ handlers[h].locals.prefs = RequestedPreferences(handlers[g].req)
        /\ Cardinality(chats) = 1
        /\ Cardinality(user_preferences) = 1

\* The (user_id, title) pairs that have a chat record.
ChatKeys == {<<r.user_id, r.title>> : r \in chats}

\* Handler h sends its response in this step.
Responds(h) ==
    /\ handlers'[h].at = "responded"
    /\ handlers[h].at /= "responded" \/ handlers[h].stamp /= handlers'[h].stamp

\* The record of key k is made in this step by a start_session that succeeds.
CreatedByStartSession(k) ==
    \E h \in Handlers :
        /\ Responds(h)
        /\ handlers'[h].route = "start_session"
        /\ handlers'[h].status = 200
        /\ handlers'[h].req.user_id = k[1]
        /\ handlers'[h].body.title = k[2]

\* The record of key k is made in this step by a chat that succeeds and that
\* found no record of k when it started.
CreatedByChat(k) ==
    \E h \in Handlers :
        /\ Responds(h)
        /\ handlers'[h].route = "chat"
        /\ handlers'[h].status = 200
        /\ handlers'[h].req.user_id = k[1]
        /\ handlers'[h].req.chat_title = k[2]
        /\ handlers'[h].locals.result.t = "NoneType"

\* C17 as stated: a chat record comes into existence only through
\* start_session, a chat request never creates a (user_id, title) record, and
\* no operation deletes a chat record.
C17_OnlyStartSessionCreates ==
    [][/\ ChatKeys \subseteq ChatKeys'
       /\ \A k \in ChatKeys' \ ChatKeys : CreatedByStartSession(k)]_vars

\* C17: a chat record comes into existence through a start_session that
\* succeeds, or through a chat request that succeeds on a (user_id, title)
\* that had no record when the request read it (the upsert then inserts);
\* no operation deletes a chat record.
C17_CreatedByStartSessionOrFirstChat ==
    [][/\ ChatKeys \subseteq ChatKeys'
       /\ \A k \in ChatKeys' \ ChatKeys : CreatedByStartSession(k) \/ CreatedByChat(k)]_vars

\* A chat on a title no session has was answered and its record exists,
\* next to the record a start_session made.
C17_Witness ==
    /\ \E h \in Handlers :
           /\ handlers[h].route = "chat"
           /\ handlers[h].at = "responded"
           /\ handlers[h].status = 200
           /\ handlers[h].req.chat_title = "Made up"
           /\ handlers[h].locals.result.t = "NoneType"
           /\ <<handlers[h].req.user_id, "Made up">> \in ChatKeys
    /\ <<"u1", "Py_3_1">> \in ChatKeys

\* The session state columns of a chat record.
StateColumns(r) == <<r.mentor_topics, r.current_topic, r.completed_topics>>

\* The transcript a chat handler saves: the history it was sent and the reply.
SavedTranscript(handler) ==
    json_dumps(PyList(handler.req.chat_history
                      \o <<ChatMessage("assistant", handler.body.reply, Now)>>))

\* C18: a chat request on an existing chat record never changes the record's
\* session state: mentor_topics, current_topic and completed_topics after the
\* request equal their values before it, whatever the reply and however many
\* chat turns came before; the one upsert that writes the transcript writes
\* them too.
C18_ChatKeepsSessionState ==
    [][/\ \A r \in chats : \E r2 \in chats' :
              /\ r2.user_id = r.user_id
              /\ r2.title = r.title
              /\ StateColumns(r2) = StateColumns(r)
       /\ \A h \in Handlers :
              (Responds(h) /\ handlers'[h].route = "chat" /\ handlers'[h].status = 200) =>
                  \E r2 \in chats' :
                      /\ r2.user_id = handlers'[h].req.user_id
                      /\ r2.title = handlers'[h].req.chat_title
                      /\ r2.messages_json = SavedTranscript(handlers'[h])
                      /\ StateColumns(r2) = <<json_dumps(handlers'[h].locals.mentor_topics),
                                              handlers'[h].locals.current_topic,
                                              json_dumps(handlers'[h].locals.completed_topics)>>
                      /\ \A r \in chats : (r.user_id = r2.user_id /\ r.title = r2.title)
                                              => StateColumns(r) = StateColumns(r2)]_vars

\* Two chat turns on the record of a session were answered, and the record
\* still has the topics the session began with next to the transcript of the
\* second turn.
C18_Witness ==
    \E h \in Handlers, r \in chats :
        /\ handlers[h].route = "chat"
        /\ handlers[h].at = "responded"
        /\ handlers[h].status = 200
        /\ handlers[h].stamp = 3
        /\ handlers[h].req.user_id = r.user_id
        /\ handlers[h].req.chat_title = r.title
        /\ handlers[h].locals.result.t = "tuple"
        /\ Len(handlers[h].locals.result.messages.v) = 3
        /\ r.messages_json = SavedTranscript(handlers[h])
        /\ r.mentor_topics = json_dumps(StrList(<<"t1", "t2">>))
        /\ r.current_topic = PyStr("t1")
        /\ r.completed_topics = "[]"

\* The handler has answered a chat request with a non-empty history with
\* success.
AnsweredChat(handler) ==
    /\ handler.route = "chat"
    /\ handler.at = "responded"
    /\ handler.status = 200
    /\ Len(handler.req.chat_history) > 0

\* The user message a chat request ends with.
Question(handler) == handler.req.chat_history[Len(handler.req.chat_history)]

\* The messages of a sequence, as a set.
Range(messages) == {messages[i] : i \in 1..Len(messages)}

\* Two chat handlers read the same record, or both none.
SameRead(a, b) ==
    /\ a.locals.result.t = b.locals.result.t
    /\ a.locals.result.t = "tuple" => a.locals.result = b.locals.result

\* The chat record of the request a handler served.
RecordOf(handler) ==
    {r \in chats : r.user_id = handler.req.user_id /\ r.title = handler.req.chat_title}

\* C19: two chat requests on the same (user_id, title) that overlap can end
\* with only one of them in the store: once both have returned success the
\* stored transcript is exactly the one the later save wrote, the whole
\* transcript of one request, and when neither request's history held the
\* other's user message that message is absent from the store.
C19_LastWriteWins ==
    \A h1, h2 \in Handlers :
        (/\ h1 /= h2
         /\ AnsweredChat(handlers[h1])
         /\ AnsweredChat(handlers[h2])
         /\ handlers[h1].req.user_id = handlers[h2].req.user_id
         /\ handlers[h1].req.chat_title = handlers[h2].req.chat_title)
        => /\ \E r \in RecordOf(handlers[h1]) :
                  \/ r.messages_json = SavedTranscript(handlers[h1])
                  \/ r.messages_json = SavedTranscript(handlers[h2])
           /\ (/\ Question(handlers[h1]) \notin Range(handlers[h2].req.chat_history)
               /\ Question(handlers[h2]) \notin Range(handlers[h1].req.chat_history))
              => ~(/\ Question(handlers[h1]) \in Range(StoredMessages(handlers[h1].req.user_id,
                                                                      handlers[h1].req.chat_title))
                   /\ Question(handlers[h2]) \in Range(StoredMessages(handlers[h1].req.user_id,
                                                                      handlers[h1].req.chat_title)))

\* Two chat requests on the record of a session read the same transcript
\* (the later one started before the earlier one saved), both returned
\* success, and the store holds the transcript of the second alone: the user
\* message of the first is not in it.
C19_Witness ==
    \E h1, h2 \in Handlers :
        /\ h1 /= h2
        /\ AnsweredChat(handlers[h1])
        /\ AnsweredChat(handlers[h2])
        /\ handlers[h1].stamp < handlers[h2].stamp
        /\ handlers[h1].req.user_id = handlers[h2].req.user_id
        /\ handlers[h1].req.chat_title = handlers[h2].req.chat_title
        /\ handlers[h1].locals.result.t = "tuple"
        /\ SameRead(handlers[h1], handlers[h2])
        /\ SavedTranscript(handlers[h1]) /= json_dumps(handlers[h1].locals.result.messages)
        /\ \E r \in RecordOf(handlers[h2]) : r.messages_json = SavedTranscript(handlers[h2])
        /\ Question(handlers[h1]) \notin Range(StoredMessages(handlers[h2].req.user_id,
                                                               handlers[h2].req.chat_title))
        /\ Question(handlers[h2]) \in Range(StoredMessages(handlers[h2].req.user_id,
                                                            handlers[h2].req.chat_title))

\* Handler h answers a get_chat_messages request in this step.
GetStep(h) == Responds(h) /\ handlers'[h].route = "get_chat_messages"

\* The handler's last response was to a get_chat_messages request for the
\* pair, the request before this one, and the other handlers serve no chat
\* on the pair that could have completed since.
JustGot(h, r) ==
    /\ handlers[h].route = "get_chat_messages"
    /\ handlers[h].at = "responded"
    /\ handlers[h].stamp = requests
    /\ handlers[h].req = r
    /\ \A g \in Handlers \ {h} :
           handlers[g].route = "chat" =>
               ~(handlers[g].req.user_id = r.user_id /\ handlers[g].req.chat_title = r.title)

\* C20: get_chat_messages is read-only and idempotent: the call leaves the
\* chats table, the user_preferences table and the summary cache unchanged;
\* it returns the messages and the state of the record, and empty messages
\* and an empty state for a (user_id, title) with no record; asked again it
\* would return the same, and it does return the same as the call before it
\* for the same pair when no chat on that pair completed in between.
C20_GetIsReadOnlyAndIdempotent ==
    [][\A h \in Handlers : GetStep(h) =>
           LET r == handlers'[h].req
               rows == {c \in chats : c.user_id = r.user_id /\ c.title = r.title}
           IN  /\ UNCHANGED <<chats, user_preferences, conversation_summaries>>
               /\ handlers'[h].status = 200
               /\ rows = {} => handlers'[h].body = [messages |-> PyList(<<>>), state |-> PyDict(<<>>)]
               /\ \A c \in rows :
                      /\ json_dumps(handlers'[h].body.messages) = c.messages_json
                      /\ handlers'[h].body.state =
                             PyDict(<< <<"mentor_topics", json_loads(c.mentor_topics)>>,
                                       <<"current_topic", c.current_topic>>,
                                       <<"completed_topics", json_loads(c.completed_topics)>> >>)
               /\ get_chat_messages_route(chats', r.user_id, r.title) = handlers'[h].body
               /\ JustGot(h, r) => handlers'[h].body = handlers[h].body]_vars

\* get_chat_messages was answered twice in a row for a pair with no record,
\* both times with empty messages and an empty state, while a start_session
\* completed in between and its record and the user's preferences exist.
C20_Witness ==
    \E g, h \in Handlers :
        /\ handlers[g].route = "get_chat_messages"
        /\ handlers[h].route = "get_chat_messages"
        /\ handlers[g].at = "responded"
        /\ handlers[h].at = "responded"
        /\ handlers[h].stamp = handlers[g].stamp + 1
        /\ handlers[h].req = handlers[g].req
        /\ handlers[g].body = [messages |-> PyList(<<>>), state |-> PyDict(<<>>)]
        /\ handlers[h].body = handlers[g].body
        /\ <<handlers[h].req.user_id, handlers[h].req.title>> \notin ChatKeys
        /\ chats /= {}
        /\ user_preferences /= {}

\* The provider failed the request, or answered with a text the operation
\* cannot use.
Unusable(result) == result.raises \/ Raised(json_loads(result.text))

\* C21: no provider call is retried.  A chat turn issues at most two
\* provider calls, a summarisation call and then the completion call, and
\* exactly one when the history has 1 to 9 messages;
\* generate_intro_and_topics and generate_topic_prompts issue exactly one
\* each; every call gets one result, and a result that is a failure or an
\* unusable text is followed by no further call for the same request.
C21_NoCallRetried ==
    /\ Len(calls) <= 2
    /\ Len(answers) <= Len(calls)
    /\ ret.op = "chat" =>
           LET n == Len(ret.args.chat_history) IN
           /\ Len(ret.calls) <= 2
           /\ Len(ret.answers) = Len(ret.calls)
           /\ (n >= 1 /\ n <= 9) => Len(ret.calls) = 1
           /\ n >= 1 => /\ ret.calls[Len(ret.calls)].json_mode
                        /\ ret.calls[Len(ret.calls)] = ChatCompletionCall(ret.args, ret.summary)
           /\ Len(ret.calls) = 2 =>
                  /\ ~ret.calls[1].json_mode
                  /\ ret.calls[1].messages = SummaryPayload(ret.args.chat_history)
    /\ ret.op \in {"generate_intro_and_topics", "generate_topic_prompts"} =>
           /\ Len(ret.calls) = 1
           /\ Len(ret.answers) = 1
           /\ ret.calls[1].json_mode

\* A chat over a long history has returned after the provider failed both
\* the summarisation and the completion request: two calls, two failures.
C21_Witness ==
    /\ ret.op = "chat"
    /\ Len(ret.args.chat_history) >= 10
    /\ Len(ret.calls) = 2
    /\ ret.answers = <<Failure, Failure>>
    /\ Unusable(ret.answers[2])

\* Handler h answers a start_session request with success in this step.
StartSucceeds(h) ==
    /\ Responds(h)
    /\ handlers'[h].route = "start_session"
    /\ handlers'[h].status = 200

\* Handler h accepts a start_session request in this step.
StartAccepted(h) ==
    /\ handlers'[h].at = "start_session"
    /\ handlers'[h].stamp = requests + 1
    /\ requests' = requests + 1

\* After the step the chats table holds the record of the session handler h
\* answers with: one record under the returned title, its transcript the one
\* assistant message returned, its topics the returned topics, its current
\* topic the first of them, no completed topic.
SessionRecorded(h) ==
    LET b == handlers'[h].body
        rows == {r \in chats' : r.user_id = handlers'[h].req.user_id /\ r.title = b.title}
    IN  /\ Cardinality(rows) = 1
        /\ Len(b.topics) > 0
        /\ b.current_topic = PyStr(b.topics[1])
        /\ \A r \in rows :
               /\ LoadsOrEmpty(r.messages_json).v
                      = <<ChatMessage("assistant", b.intro_and_topics, Now)>>
               /\ r.mentor_topics = json_dumps(StrList(b.topics))
               /\ r.current_topic = PyStr(b.topics[1])
               /\ r.completed_topics = "[]"

\* C22 as stated: when a start_session request succeeds, the preferences
\* row of the user equals the request's learning_goal, skills, difficulty
\* and role, and the chats table holds the record of the session.
C22_PreferencesAndRecordAtSuccess ==
    [][\A h \in Handlers : StartSucceeds(h) =>
           /\ get_user_preferences(user_preferences', handlers'[h].req.user_id)
                  = RequestedPreferences(handlers'[h].req)
           /\ SessionRecorded(h)]_vars

\* C22: a start_session request sets the preferences row of the user to its
\* learning_goal, skills, difficulty and role when it is accepted, before the
\* engine is awaited, and the row changes only when a start_session request
\* is accepted (so at success it holds the values of the user's latest
\* start_session request, another one if one was accepted meanwhile); when
\* the request succeeds the chats table holds a record under the returned
\* title whose transcript is exactly one assistant message, whose
\* mentor_topics equals the returned topics, which are never empty, whose
\* current_topic is the first returned topic, never null, and whose
\* completed_topics is empty.
C22_PreferencesAtAcceptRecordAtSuccess ==
    [][/\ \A h \in Handlers : StartSucceeds(h) =>
              /\ SessionRecorded(h)
              /\ UNCHANGED user_preferences
              /\ \E p \in user_preferences : p.user_id = handlers'[h].req.user_id
       /\ \A h \in Handlers : StartAccepted(h) =>
              get_user_preferences(user_preferences', handlers'[h].req.user_id)
                  = RequestedPreferences(handlers'[h].req)
       /\ user_preferences' /= user_preferences => \E h \in Handlers : StartAccepted(h)]_vars

\* A start_session succeeded on the default topics after the provider
\* failed, its record has "Introduction" as current topic, and the
\* preferences row holds the values of a start_session request accepted
\* while it waited.
C22_Witness ==
    \E h \in Handlers :
        /\ handlers[h].route = "start_session"
        /\ handlers[h].at = "responded"
        /\ handlers[h].status = 200
        /\ handlers[h].body.topics = DefaultTopics
        /\ \E r \in chats :
               /\ r.title = handlers[h].body.title
               /\ r.current_topic = PyStr("Introduction")
               /\ r.completed_topics = "[]"
        /\ get_user_preferences(user_preferences, handlers[h].req.user_id)
               /= RequestedPreferences(handlers[h].req)

\* Handler h answers a chat request with success in this step.
ChatSucceeds(h) ==
    /\ Responds(h)
    /\ handlers'[h].route = "chat"
    /\ handlers'[h].status = 200

\* C23: after every successful chat request with a non-empty chat_history
\* the transcript stored for (user_id, chat_title) is the request's
\* chat_history in order followed by exactly one assistant message whose
\* content is the reply returned to the caller: the one record of the key
\* holds the serialisation of that list and nothing else, so the transcript
\* stored before is replaced as a whole and a message stored earlier and
\* absent from the request is gone.
C23_TranscriptIsRequestPlusReply ==
    [][\A h \in Handlers :
           (ChatSucceeds(h) /\ Len(handlers'[h].req.chat_history) > 0) =>
               LET r == handlers'[h].req
                   rows == {c \in chats' : c.user_id = r.user_id /\ c.title = r.chat_title}
               IN  /\ Cardinality(rows) = 1
                   /\ \A c \in rows :
                          c.messages_json
                              = json_dumps(PyList(
                                    r.chat_history
                                    \o <<ChatMessage("assistant", handlers'[h].body.reply, Now)>>))]_vars

\* A chat that sent its question alone on the record of a session was
\* answered: the stored transcript is the question and the reply, and the
\* session's opening message, stored before, is gone.
C23_Witness ==
    \E h \in Handlers :
        /\ AnsweredChat(handlers[h])
        /\ Len(handlers[h].req.chat_history) = 1
        /\ handlers[h].locals.result.t = "tuple"
        /\ Len(handlers[h].locals.result.messages.v) = 1
        /\ handlers[h].locals.result.messages.v[1] \notin
               Range(StoredMessages(handlers[h].req.user_id, handlers[h].req.chat_title))
        /\ StoredMessages(handlers[h].req.user_id, handlers[h].req.chat_title)
               = handlers[h].req.chat_history
                     \o <<ChatMessage("assistant", handlers[h].body.reply, Now)>>

\* C24: a chat request whose chat_history is empty, answered with the canned
\* prompt-for-input message, leaves the chat record of (user_id, chat_title)
\* unchanged: the stored transcript is neither replaced nor shortened and no
\* record is created.
C24_EmptyHistoryKeepsRecord ==
    [][\A h \in Handlers :
           (/\ Responds(h)
            /\ handlers'[h].route = "chat"
            /\ Len(handlers'[h].req.chat_history) = 0)
           => /\ handlers'[h].status = 200
              /\ handlers'[h].body.reply = EmptyHistoryReply
              /\ UNCHANGED chats]_vars

\* C25: the system instruction delivered to the provider for a chat turn is
\* the system prompt composed by MentorEngine.chat, for every chat_history
\* the client supplies: a message with role "system" among the last 6
\* history messages never replaces it.
C25_SystemPromptIsTheEngines ==
    (ret.op = "chat" /\ Len(ret.args.chat_history) > 0) =>
        SystemInstruction(ret.calls[Len(ret.calls)].messages)
            = PyStr(SystemPrompt(ret.args.context))

\* The summaries made of the conversations of the users other than user_id.
SummariesOfOthers(user_id) ==
    {Strip(SummaryOf(u)) : u \in {c.user_id : c \in Contexts} \ {user_id}}

\* C26: the summary placed into the prompt of a chat turn of a user is
\* derived from a history the same user submitted: after any sequence of
\* chat turns by several users, the summary made of one user's conversation
\* is never sent in a chat turn of another user, also when both use the same
\* chat_title.
C26_SummaryStaysWithItsUser ==
    ret.op = "chat" =>
        /\ ret.summary \notin SummariesOfOthers(ret.args.context.user_id)
        /\ Len(ret.calls) > 0 =>
               ret.calls[Len(ret.calls)].messages[Len(ret.calls[Len(ret.calls)].messages)].content
                   \notin {UserPrompt(s) : s \in SummariesOfOthers(ret.args.context.user_id)}

\* The entry of a cache for a title, "" without one.
EntryOf(cache, chat_title) == IF chat_title \in DOMAIN cache THEN cache[chat_title] ELSE ""

\* The user wrapper message of the completion request of a finished chat.
WrapperSent ==
    ret.calls[Len(ret.calls)].messages[Len(ret.calls[Len(ret.calls)].messages)].content

\* C27: a failed summarisation call never changes the summary cache: when
\* the provider fails the request of _get_conversation_summary, the cache
\* entry of the chat title keeps its value and the summary used for the turn
\* is that value; the adapter's fallback text is never stored as a summary
\* nor sent as the conversation summary of a prompt.
C27_FailedSummaryKeepsCache ==
    /\ \A t \in DOMAIN conversation_summaries : conversation_summaries[t] /= TroubleText
    /\ ret.op = "chat" =>
           /\ ret.summary /= TroubleText
           /\ (Len(ret.calls) = 2 /\ ret.answers[1].raises) =>
                  /\ ret.summaries_after = ret.summaries_before
                  /\ ret.summary = EntryOf(ret.summaries_before, ret.args.chat_title)
                  /\ WrapperSent = UserPrompt(EntryOf(ret.summaries_before, ret.args.chat_title))

\* C28: the user wrapper message of a chat turn carries the marker
\* "(no prior summary)" only when no summary is available for the chat
\* title, none generated in this turn and no entry in the cache; once a
\* non-empty summary is cached for a title, every later chat turn on the
\* title sends a non-empty summary and never the marker.
C28_MarkerOnlyWithoutSummary ==
    (ret.op = "chat" /\ Len(ret.calls) > 0) =>
        /\ WrapperSent = UserPrompt("") =>
               /\ ret.summary = ""
               /\ ret.args.chat_title \notin DOMAIN ret.summaries_before
        /\ ret.args.chat_title \in DOMAIN ret.summaries_before =>
               /\ ret.summaries_before[ret.args.chat_title] /= ""
               /\ ret.summary /= ""
               /\ WrapperSent /= UserPrompt("")

\* C29: in json_mode every value Connection.generate_chat_completion returns
\* is the empty text or a text that parses as one JSON object (never an
\* array, a string or a number, never a text that does not parse), whatever
\* the provider answers and when it fails; so _safe_json_parse never gives
\* the parse-failure sentinel for a response obtained through the adapter in
\* json_mode.
C29_JsonModeGivesObjectOrEmpty ==
    (out.fn = "generate_chat_completion" /\ out.value.json_mode) =>
        /\ \/ out.value.text = ""
           \/ \E v \in {json_loads(out.value.text)} : ~Raised(v) /\ v.t = "dict"
        /\ out.value.text = "" => (~out.value.result.raises /\ out.value.result.text = "")
        /\ \E parsed \in {_safe_json_parse(out.value.text)} :
               /\ parsed.t = "dict"
               /\ parsed /= ParseFailure(out.value.text)

\* The provider answered a json_mode request with a bare JSON array, and the
\* adapter returned an object that wraps the text.
C29_Witness ==
    /\ out.fn = "generate_chat_completion"
    /\ out.value.json_mode
    /\ ~out.value.result.raises
    /\ out.value.result.text = "[1, 2]"
    /\ out.value.text = json_dumps(PyDict(<< <<"response", PyStr("[1, 2]")>> >>))
====
